---- MODULE Spec2Model ----
(***************************************************************************)
(* A model of the AristaLibrary.Expect keyword library                     *)
(* (src/AristaLibrary/Expect.py) together with the parts of AristaLibrary  *)
(* (src/AristaLibrary/AristaLibrary.py) it calls: the connection list, the *)
(* active switch, the per-switch command memory and result cache, and the  *)
(* Expect / Get Value matcher.                                             *)
(*                                                                         *)
(* Python values are tagged records [t, v]; a Python string is the         *)
(* sequence of its characters, so that split(), lower(), replace() and     *)
(* int() are computed on the characters as the code computes them.         *)
(***************************************************************************)
EXTENDS Integers, Sequences, FiniteSets, TLC

(* ------------------------------------------------------------------ *)
(* Bounds                                                             *)
(* ------------------------------------------------------------------ *)

\* the number of switches a session connects to
MaxDevices == 2

(* ------------------------------------------------------------------ *)
(* String literals (character sequences)                              *)
(* ------------------------------------------------------------------ *)

s_config == <<"c","o","n","f","i","g">>
s_full_output == <<"f","u","l","l"," ","o","u","t","p","u","t">>
s_show_startup_config == <<"s","h","o","w"," ","s","t","a","r","t","u","p","-","c","o","n","f","i","g">>
s_show_running_config == <<"s","h","o","w"," ","r","u","n","n","i","n","g","-","c","o","n","f","i","g">>
s_show_running_config_all == <<"s","h","o","w"," ","r","u","n","n","i","n","g","-","c","o","n","f","i","g"," ","a","l","l">>
s_show_running_config_section == <<"s","h","o","w"," ","r","u","n","n","i","n","g","-","c","o","n","f","i","g"," ","s","e","c","t","i","o","n"," ","b","g","p">>
s_show_hostname == <<"s","h","o","w"," ","h","o","s","t","n","a","m","e">>
s_show_load == <<"s","h","o","w"," ","l","o","a","d">>
s_load == <<"l","o","a","d">>
s_rate == <<"r","a","t","e">>
s_show_interfaces == <<"s","h","o","w"," ","i","n","t","e","r","f","a","c","e","s">>
s_hostname == <<"h","o","s","t","n","a","m","e">>
s_sw == <<"s","w">>
s_interfaces == <<"i","n","t","e","r","f","a","c","e","s">>
s_Et1 == <<"E","t","1">>
s_Et2 == <<"E","t","2">>
s_mtu == <<"m","t","u">>
s_status == <<"s","t","a","t","u","s">>
s_up == <<"u","p">>
s_ports == <<"p","o","r","t","s">>
s_count == <<"c","o","u","n","t">>
s_descr == <<"d","e","s","c","r">>
s_ip_routing == <<"i","p"," ","r","o","u","t","i","n","g">>
s_no_ip_routing == <<"n","o"," ","i","p"," ","r","o","u","t","i","n","g">>
s_hostname_sp == <<"h","o","s","t","n","a","m","e"," ">>
s_startup_banner == <<"!"," ","s","t","a","r","t","u","p">>
s_output == <<"o","u","t","p","u","t">>
s_empty == << >>
Newline == "\n"

(* ------------------------------------------------------------------ *)
(* Python values                                                      *)
(* ------------------------------------------------------------------ *)

None == [t |-> "none", v |-> << >>]
StrV(s) == [t |-> "str", v |-> s]
IntV(n) == [t |-> "int", v |-> n]
ListV(xs) == [t |-> "list", v |-> xs]
DictV(f) == [t |-> "dict", v |-> f]
\* the characters of the model's alphabet outside ASCII (here e with an acute
\* accent, one character written as its code point); the strings of a JSON
\* body and the arguments of a keyword are unicode objects
NonAscii == {"U+00E9"}

\* str(x) and '{}'.format(x) encode a unicode object with the ascii codec
IsAscii(x) == x.t # "str" \/ \A i \in DOMAIN x.v : x.v[i] \notin NonAscii

\* a float of the JSON body, n / d with d a power of ten
FloatV(n, d) == [t |-> "float", v |-> <<n, d>>]

\* Python truth value of an object: `if cmd:`, `if returned:`
Truthy(x) ==
    CASE x.t = "none" -> FALSE
      [] x.t = "str"  -> Len(x.v) > 0
      [] x.t = "list" -> Len(x.v) > 0
      [] x.t = "dict" -> DOMAIN x.v # {}
      [] x.t = "int"  -> x.v # 0
      [] x.t = "float" -> x.v[1] # 0
      [] OTHER        -> TRUE

\* d[k] = v on a Python dict held as a function
Put(f, k, val) == [x \in (DOMAIN f) \cup {k} |-> IF x = k THEN val ELSE f[x]]

\* str.startswith(prefix)
StartsWith(s, p) == Len(p) <= Len(s) /\ SubSeq(s, 1, Len(p)) = p

RECURSIVE SplitFrom(_, _, _, _)
SplitFrom(s, i, cur, acc) ==
    IF i > Len(s) THEN Append(acc, StrV(cur))
    ELSE IF s[i] = Newline THEN SplitFrom(s, i + 1, << >>, Append(acc, StrV(cur)))
    ELSE SplitFrom(s, i + 1, Append(cur, s[i]), acc)

\* text.split('\n'): the list of the lines of text ('' gives [''])
SplitLines(s) == ListV(SplitFrom(s, 1, << >>, << >>))

\* a pattern without the trailing .* : only the bare commands match
ReMatchBare(s) == s = s_show_startup_config \/ s = s_show_running_config

\* re.match(r'^show (startup|running)-config.*$', run_cmd): '.' matches no
\* newline and '$' matches at the end or before a final newline
ReMatchShowConfig(s) ==
    /\ StartsWith(s, s_show_startup_config) \/ StartsWith(s, s_show_running_config)
    /\ \A i \in (Len(s_show_running_config) + 1)..Len(s) : s[i] = Newline => i = Len(s)

(* ------------------------------------------------------------------ *)
(* The switches (external collaborator reached through pyeapi)        *)
(* ------------------------------------------------------------------ *)

Digits == <<"0","1","2","3","4","5","6","7","8","9">>
HostName(d) == s_sw \o <<Digits[d + 1]>>

\* the running-config text of switch d; the variant is the state the switch is in
RunningText(d, var) ==
    s_hostname_sp \o HostName(d) \o <<Newline>> \o
    (IF var = "v1" THEN s_ip_routing ELSE s_no_ip_routing)

\* the startup-config text of switch d
StartupText(d, var) ==
    s_startup_banner \o <<Newline>> \o RunningText(d, var)

\* the json body switch d returns for a command
JsonBody(d, text, var) ==
    IF text = s_show_interfaces
    THEN DictV(s_interfaces :> DictV(s_Et1 :> DictV(s_mtu :> IntV(9) @@ s_status :> StrV(s_up)))
              @@ s_ports :> ListV(IF var = "v1" THEN <<StrV(s_Et1), StrV(s_Et2)>> ELSE << >>)
              @@ s_count :> IntV(IF var = "v1" THEN 5 ELSE 0)
              @@ s_descr :> StrV(s_empty))
    ELSE IF text = s_show_load
    THEN DictV(s_load :> FloatV(IF var = "v1" THEN 57 ELSE 50, 10)
              @@ s_rate :> StrV(IF var = "v1" THEN <<"2", ".", "5">> ELSE <<"a", "b", "c">>)
              @@ s_count :> IntV(IF var = "v1" THEN 5 ELSE 0)
              @@ s_descr :> StrV(IF var = "v1" THEN <<"U+00E9">> ELSE s_up))
    ELSE DictV(s_hostname :> StrV(IF var = "v1" THEN HostName(d) ELSE HostName(d) \o <<"b">>))

\* the first command of a command the caller built (a list of strings)
FirstText(run) == IF run.t = "list" /\ Len(run.v) > 0 THEN run.v[1].v ELSE s_empty

(* ------------------------------------------------------------------ *)
(* State                                                              *)
(* ------------------------------------------------------------------ *)

VARIABLES
    connections,   \* AristaLibrary.connections / ConnectionCache: switches 1..connections
    aliases,       \* ConnectionCache aliases: alias -> index
    current,       \* ConnectionCache.current_index (0: no connection)
    import_cmd,    \* Expect.import_cmd
    switch_cmd,    \* Expect.switch_cmd: index -> command (index 0 is the key None)
    result,        \* Expect.result: index -> result (index 0 is the key None)
    last,          \* the last keyword call: its arguments and what it did
    args           \* the arguments the test case passes to Expect and Get Value

vars == <<connections, aliases, current, import_cmd, switch_cmd, result, last, args>>

NoSel == [kind |-> "none", idx |-> 0, alias |-> ""]
ByIndex(i) == [kind |-> "index", idx |-> i, alias |-> ""]
ByAlias(a) == [kind |-> "alias", idx |-> 0, alias |-> a]

\* ConnectionCache._resolve_alias_or_index inside get_switch: the index of the
\* switch, 0 when the ValueError / KeyError is caught ('index': None)
ResolveIndex(x) ==
    IF x.kind = "alias"
    THEN IF x.alias \in DOMAIN aliases THEN aliases[x.alias] ELSE 0
    ELSE IF x.kind = "index" /\ x.idx \in 1..connections THEN x.idx ELSE 0

\* get_switch(index_or_alias)['index']; without an argument the current index
get_switch(x) == IF x.kind = "none" THEN current ELSE ResolveIndex(x)

\* get_switches(): the values of self.connections, in index order
RECURSIVE UpTo(_)
UpTo(n) == IF n = 0 THEN << >> ELSE Append(UpTo(n - 1), n)
get_switches == UpTo(connections)

(* ------------------------------------------------------------------ *)
(* AristaLibrary keywords                                             *)
(* ------------------------------------------------------------------ *)

\* connect_to(alias=...): ConnectionCache.register makes the new connection the
\* current one and records its alias; self.connections[conn_indx] is filled in
ConnectTo(alias) ==
    /\ connections < MaxDevices
    /\ connections' = connections + 1
    /\ aliases' = IF alias # "" THEN Put(aliases, alias, connections + 1) ELSE aliases
    /\ current' = connections + 1
    /\ last' = [op |-> "connect", ret |-> connections + 1]
    /\ UNCHANGED <<import_cmd, switch_cmd, result, args>>

\* change_to_switch returning the index it switched to
ChangeToSwitchNew(x) ==
    /\ x.kind # "none"
    /\ LET index == ResolveIndex(x)
       IN /\ current' = IF index = 0 THEN current ELSE index
          /\ last' = [op |-> "switch", arg |-> x, ret |-> index,
                      exc |-> IF index = 0 THEN "RuntimeError" ELSE "none"]
    /\ UNCHANGED <<connections, aliases, import_cmd, switch_cmd, result, args>>

\* change_to_switch(index_or_alias): returns the index that was current;
\* ConnectionCache.switch raises RuntimeError for an unknown index or alias
ChangeToSwitch(x) ==
    /\ x.kind # "none"
    /\ LET index == ResolveIndex(x)
       IN /\ current' = IF index = 0 THEN current ELSE index
          /\ last' = [op |-> "switch", arg |-> x, ret |-> current,
                      exc |-> IF index = 0 THEN "RuntimeError" ELSE "none"]
    /\ UNCHANGED <<connections, aliases, import_cmd, switch_cmd, result, args>>

\* what the switch sends for a show *-config command in text encoding
ConfigText(d, text, var) ==
    IF StartsWith(text, s_show_startup_config) THEN StartupText(d, var)
    ELSE RunningText(d, var)

\* enable(commands, encoding)[0]['result'] on switch d: an AssertionError when
\* the switch rejects the command (CommandError), else the result of the first
\* command; a command with no json form comes back as {'output': text}
enable(d, text, encoding, b) ==
    IF b = "fail" THEN [exc |-> "AssertionError", val |-> None]
    ELSE IF encoding = "text" \/ ReMatchShowConfig(text)
    THEN [exc |-> "none", val |-> DictV(s_output :> StrV(ConfigText(d, text, b)))]
    ELSE [exc |-> "none", val |-> JsonBody(d, text, b)]

\* refresh() then get_startup_config() / get_running_config() on switch d
get_config(d, which, b) ==
    IF b = "fail" THEN [exc |-> "AssertionError", val |-> None]
    ELSE [exc |-> "none",
          val |-> StrV(IF which = "startup" THEN StartupText(d, b) ELSE RunningText(d, b))]

(* ------------------------------------------------------------------ *)
(* Expect.get_command_output                                          *)
(* ------------------------------------------------------------------ *)

\* the import default taken before the command remembered for the switch
ResolveCmdDefaultFirst(cmd, sc, index) ==
    IF Truthy(cmd) THEN [run |-> cmd, sc |-> Put(sc, index, cmd)]
    ELSE IF Truthy(import_cmd) THEN [run |-> import_cmd, sc |-> Put(sc, index, import_cmd)]
    ELSE IF index \in DOMAIN sc /\ Truthy(sc[index]) THEN [run |-> sc[index], sc |-> sc]
    ELSE [run |-> None, sc |-> Put(sc, index, None)]

\* a cmd parameter that is run without being remembered
ResolveCmdForget(cmd, sc, index) ==
    IF Truthy(cmd) THEN [run |-> cmd, sc |-> IF index \in DOMAIN sc THEN sc ELSE Put(sc, index, cmd)]
    ELSE IF index \in DOMAIN sc /\ Truthy(sc[index]) THEN [run |-> sc[index], sc |-> sc]
    ELSE IF Truthy(import_cmd) THEN [run |-> import_cmd, sc |-> Put(sc, index, import_cmd)]
    ELSE [run |-> None, sc |-> Put(sc, index, None)]

\* the command to execute on switch index and the updated switch_cmd:
\* 1. cmd parameter, 2. last command of this switch, 3. import_cmd, 4. None
ResolveCmd(cmd, sc, index) ==
    IF Truthy(cmd) THEN [run |-> cmd, sc |-> Put(sc, index, cmd)]
    ELSE IF index \in DOMAIN sc /\ Truthy(sc[index]) THEN [run |-> sc[index], sc |-> sc]
    ELSE IF Truthy(import_cmd) THEN [run |-> import_cmd, sc |-> Put(sc, index, import_cmd)]
    ELSE [run |-> None, sc |-> Put(sc, index, None)]

\* a reply and the call that produced it
Via(reply, via) == [exc |-> reply.exc, val |-> reply.val, via |-> via]

\* reply.split('\n') of a reply that is text
Lines(reply) ==
    IF reply.exc # "none" THEN reply ELSE [exc |-> "none", val |-> SplitLines(reply.val.v)]

\* reply[0]['result']['output'].split('\n')
OutputLines(reply) ==
    IF reply.exc # "none" THEN reply
    ELSE [exc |-> "none", val |-> SplitLines(reply.val.v[s_output].v)]

\* the decoding of run_cmd on the active switch d: the exception raised, if
\* any, the value stored in self.result[index] ("keep": nothing is stored) and
\* the call that was made to the switch
Decode(run, d, b) ==
    IF run.t = "dict" \/ run.t = "list"
    THEN Via(enable(d, FirstText(run), "json", b), "enable")
    ELSE IF run = StrV(s_show_startup_config)
    THEN Via(Lines(get_config(d, "startup", b)), "get_startup_config")
    ELSE IF run = StrV(s_show_running_config_all)
    THEN Via(Lines(get_config(d, "running", b)), "get_running_config")
    ELSE IF run.t # "str"
    THEN \* re.match(pattern, None): TypeError, expected string or buffer
         Via([exc |-> "TypeError", val |-> None], "none")
    ELSE IF ReMatchShowConfig(run.v)
    THEN Via(OutputLines(enable(d, run.v, "text", b)), "enable text")
    ELSE IF Truthy(run)
    THEN Via(enable(d, run.v, "json", b), "enable")
    ELSE Via([exc |-> "none", val |-> [t |-> "keep", v |-> << >>]], "none")

\* a pass that puts the command and the result of the switch back when the
\* command fails
FetchStoreRollback(st, index, rc, cur, out) ==
    [sc  |-> IF out.exc = "none" THEN rc.sc ELSE st.sc,
     res |-> IF out.exc = "none" /\ out.val.t # "keep"
             THEN Put(st.res, index, out.val)
             ELSE IF out.exc = "none" THEN Put(st.res, index, None) ELSE st.res,
     cur |-> cur,
     ran |-> IF out.via = "none" THEN st.ran
             ELSE Append(st.ran, [dev |-> cur, index |-> index, cmd |-> rc.run,
                                  via |-> out.via]),
     exc |-> out.exc]

\* the rest of one pass once the command and the active switch are known
FetchStore(st, index, rc, cur, out) ==
    [sc  |-> rc.sc,
     res |-> IF out.exc = "none" /\ out.val.t # "keep"
             THEN Put(st.res, index, out.val) ELSE Put(st.res, index, None),
     cur |-> cur,
     ran |-> IF out.via = "none" THEN st.ran
             ELSE Append(st.ran, [dev |-> cur, index |-> index, cmd |-> rc.run,
                                  via |-> out.via]),
     exc |-> out.exc]

\* one pass of `for switch in switch_list` for the switch with this index:
\* resolve the command, clear the result, change_to_switch(index) (with index
\* None ConnectionCache.switch keeps the current connection or raises,
\* depending on its version), execute and store
FetchStep(st, index, rc, behav, nullSwitch) ==
    IF index = 0 /\ (st.cur = 0 \/ nullSwitch = "raise")
    THEN [sc |-> rc.sc, res |-> Put(st.res, index, None), cur |-> st.cur,
          ran |-> st.ran, exc |-> "RuntimeError"]
    ELSE IF index = 0
    THEN FetchStore(st, index, rc, st.cur, Decode(rc.run, st.cur, behav[st.cur]))
    ELSE FetchStore(st, index, rc, index, Decode(rc.run, index, behav[index]))

FetchOne(st, index, cmd, behav, nullSwitch) ==
    FetchStep(st, index, ResolveCmd(cmd, st.sc, index), behav, nullSwitch)

\* a loop that goes on to the next switch after a failure
RECURSIVE FetchLoopOn(_, _, _, _, _, _)
FetchLoopOn(switch_list, i, st, cmd, behav, nullSwitch) ==
    IF i > Len(switch_list) THEN st
    ELSE FetchLoopOn(switch_list, i + 1,
                     [FetchOne(st, switch_list[i], cmd, behav, nullSwitch)
                         EXCEPT !.exc = IF st.exc # "none" THEN st.exc ELSE @],
                     cmd, behav, nullSwitch)

\* a loop that takes the switches from the last to the first
RECURSIVE FetchLoopBackwards(_, _, _, _, _, _)
FetchLoopBackwards(switch_list, i, st, cmd, behav, nullSwitch) ==
    IF i > Len(switch_list) \/ st.exc # "none" THEN st
    ELSE FetchLoopBackwards(switch_list, i + 1,
                            FetchOne(st, switch_list[Len(switch_list) + 1 - i], cmd,
                                     behav, nullSwitch),
                            cmd, behav, nullSwitch)

\* for switch in switch_list: an exception ends the loop
RECURSIVE FetchLoop(_, _, _, _, _, _)
FetchLoop(switch_list, i, st, cmd, behav, nullSwitch) ==
    IF i > Len(switch_list) \/ st.exc # "none" THEN st
    ELSE FetchLoop(switch_list, i + 1,
                   FetchOne(st, switch_list[i], cmd, behav, nullSwitch),
                   cmd, behav, nullSwitch)

\* if switch_id: [get_switch(switch_id)] else get_switches()
SwitchList(switch_id) ==
    IF switch_id.kind # "none" THEN <<get_switch(switch_id)>> ELSE get_switches

\* get_command_output switching back to the switch that was active
GetCommandOutputRestore(switch_id, cmd, behav, nullSwitch) ==
    \E fin \in {FetchLoop(SwitchList(switch_id), 1,
                          [sc |-> switch_cmd, res |-> result, cur |-> current,
                           ran |-> << >>, exc |-> "none"],
                          cmd, behav, nullSwitch)} :
       /\ switch_cmd' = fin.sc
       /\ result' = fin.res
       /\ current' = current
       /\ last' = [op |-> "fetch", switch_id |-> switch_id, cmd |-> cmd,
                   ran |-> fin.ran, exc |-> fin.exc]
       /\ UNCHANGED <<connections, aliases, import_cmd, args>>

\* get_command_output(switch_id, cmd); behav is how each switch answers
GetCommandOutput(switch_id, cmd, behav, nullSwitch) ==
    \E fin \in {FetchLoop(SwitchList(switch_id), 1,
                          [sc |-> switch_cmd, res |-> result, cur |-> current,
                           ran |-> << >>, exc |-> "none"],
                          cmd, behav, nullSwitch)} :
       /\ switch_cmd' = fin.sc
       /\ result' = fin.res
       /\ current' = fin.cur
       /\ last' = [op |-> "fetch", switch_id |-> switch_id, cmd |-> cmd,
                   ran |-> fin.ran, exc |-> fin.exc]
       /\ UNCHANGED <<connections, aliases, import_cmd, args>>

(* ------------------------------------------------------------------ *)
(* String operations of the matcher                                   *)
(* ------------------------------------------------------------------ *)

IsSpace(c) == c \in {" ", "\t", "\n", "\r"}

RECURSIVE SplitWsFrom(_, _, _, _)
SplitWsFrom(s, i, cur, acc) ==
    IF i > Len(s) THEN (IF cur = << >> THEN acc ELSE Append(acc, cur))
    ELSE IF IsSpace(s[i])
    THEN SplitWsFrom(s, i + 1, << >>, IF cur = << >> THEN acc ELSE Append(acc, cur))
    ELSE SplitWsFrom(s, i + 1, Append(cur, s[i]), acc)

\* key.split(): the words of key, separated by runs of whitespace
SplitWs(s) == SplitWsFrom(s, 1, << >>, << >>)

UpperChars == <<"A","B","C","D","E","F","G","H","I","J","K","L","M",
                "N","O","P","Q","R","S","T","U","V","W","X","Y","Z">>
LowerChars == <<"a","b","c","d","e","f","g","h","i","j","k","l","m",
                "n","o","p","q","r","s","t","u","v","w","x","y","z">>
LowerChar(c) ==
    IF \E i \in DOMAIN UpperChars : UpperChars[i] = c
    THEN LowerChars[CHOOSE i \in DOMAIN UpperChars : UpperChars[i] = c]
    ELSE c

\* s.lower()
Lower(s) == [i \in 1..Len(s) |-> LowerChar(s[i])]

\* s.replace(a, b) for single characters
Replace(s, a, b) == [i \in 1..Len(s) |-> IF s[i] = a THEN b ELSE s[i]]

\* sub in s, for strings
Contains(s, sub) ==
    \E i \in 0..(Len(s) - Len(sub)) : SubSeq(s, i + 1, i + Len(sub)) = sub

\* s.strip()
Strip(s) ==
    LET keep == {i \in DOMAIN s : ~IsSpace(s[i])}
    IN IF keep = {} THEN << >>
       ELSE SubSeq(s, CHOOSE i \in keep : \A j \in keep : i <= j,
                      CHOOSE i \in keep : \A j \in keep : i >= j)

IsDigit(c) == \E i \in DOMAIN Digits : Digits[i] = c
DigitVal(c) == (CHOOSE i \in DOMAIN Digits : Digits[i] = c) - 1
AllDigits(s) == Len(s) > 0 /\ \A i \in DOMAIN s : IsDigit(s[i])

RECURSIVE DigitsVal(_, _, _)
DigitsVal(s, i, acc) ==
    IF i > Len(s) THEN acc ELSE DigitsVal(s, i + 1, 10 * acc + DigitVal(s[i]))

\* int(s) for a string: an optional sign and decimal digits, else ValueError
ParseInt(s) ==
    IF Len(s) > 0 /\ s[1] \in {"-", "+"}
    THEN IF AllDigits(Tail(s))
         THEN [ok |-> TRUE, n |-> (IF s[1] = "-" THEN -1 ELSE 1) * DigitsVal(Tail(s), 1, 0)]
         ELSE [ok |-> FALSE, n |-> 0]
    ELSE IF AllDigits(s) THEN [ok |-> TRUE, n |-> DigitsVal(s, 1, 0)]
    ELSE [ok |-> FALSE, n |-> 0]

(* ------------------------------------------------------------------ *)
(* Key path resolution (Expect.expect and Expect.get_value)           *)
(* ------------------------------------------------------------------ *)

Ok(val) == [exc |-> "none", val |-> val]
Raise(exc) == [exc |-> exc, val |-> None]

\* list[int(k)]: Python indexing, a negative index counts from the end
ListItem(xs, k) ==
    IF ~ParseInt(k).ok THEN Raise("ValueError")
    ELSE IF ParseInt(k).n >= 0 /\ ParseInt(k).n < Len(xs) THEN Ok(xs[ParseInt(k).n + 1])
    ELSE IF ParseInt(k).n < 0 /\ -ParseInt(k).n <= Len(xs)
    THEN Ok(xs[Len(xs) + ParseInt(k).n + 1])
    ELSE Raise("IndexError")

\* returned = returned[k], and returned[int(k)] after the TypeError of a list;
\* any other TypeError (a string, a number, None) is raised again
GetItem(returned, k) ==
    IF returned.t = "dict"
    THEN IF k \in DOMAIN returned.v THEN Ok(returned.v[k]) ELSE Raise("KeyError")
    ELSE IF returned.t = "list" THEN ListItem(returned.v, k)
    ELSE Raise("TypeError")

RECURSIVE Descend(_, _, _)
\* for k in keylist: returned = returned[k]
Descend(res, keylist, i) ==
    IF res.exc # "none" \/ i > Len(keylist) THEN res
    ELSE Descend(GetItem(res.val, keylist[i]), keylist, i + 1)

\* the key paths of the earlier Expect, which knew 'config' only
ExpectWholeKeysConfig == {s_config}

\* the key paths that name the whole result, for expect and for get_value
ExpectWholeKeys == {s_config, s_full_output}
GetValueWholeKeys == {s_config}

\* the value a key names in a stored result
ResolveKey(key, returned, wholeKeys) ==
    IF Lower(key) \in wholeKeys THEN Ok(returned)
    ELSE Descend(Ok(returned), SplitWs(key), 1)

\* get_value(key): the exception raised, or the value returned
get_value(key) ==
    IF current \notin DOMAIN result THEN Raise("KeyError")
    ELSE ResolveKey(key, result[current], GetValueWholeKeys)

(* ------------------------------------------------------------------ *)
(* str() and repr() of a value                                        *)
(* ------------------------------------------------------------------ *)

RECURSIVE NatToStr(_)
NatToStr(n) ==
    IF n < 10 THEN <<Digits[n + 1]>> ELSE NatToStr(n \div 10) \o <<Digits[(n % 10) + 1]>>
IntToStr(n) == IF n < 0 THEN <<"-">> \o NatToStr(-n) ELSE NatToStr(n)

\* the keys of a dict in its iteration order, which the hash table fixes
RECURSIVE KeyOrder(_)
KeyOrder(S) ==
    IF S = {} THEN << >>
    ELSE <<CHOOSE x \in S : TRUE>> \o KeyOrder(S \ {CHOOSE x \in S : TRUE})

\* the characters of a unicode string in its repr: a character outside ASCII
\* is written as its escape
RECURSIVE ReprChars(_, _)
ReprChars(s, i) ==
    IF i > Len(s) THEN << >>
    ELSE (IF s[i] \in NonAscii THEN <<"\\", "x", "e", "9">> ELSE <<s[i]>>)
         \o ReprChars(s, i + 1)

RECURSIVE Repr(_)
RECURSIVE ReprItems(_, _)
RECURSIVE ReprPairs(_, _, _)
ReprItems(xs, i) ==
    IF i > Len(xs) THEN << >>
    ELSE (IF i > 1 THEN <<",", " ">> ELSE << >>) \o Repr(xs[i]) \o ReprItems(xs, i + 1)
ReprPairs(f, keys, i) ==
    IF i > Len(keys) THEN << >>
    ELSE (IF i > 1 THEN <<",", " ">> ELSE << >>) \o Repr(StrV(keys[i])) \o <<":", " ">>
         \o Repr(f[keys[i]]) \o ReprPairs(f, keys, i + 1)
\* repr(x): a unicode string is shown as u'...'
Repr(x) ==
    CASE x.t = "none" -> <<"N","o","n","e">>
      [] x.t = "int"  -> IntToStr(x.v)
      [] x.t = "float" -> IntToStr(x.v[1] \div x.v[2]) \o <<".">> \o NatToStr(x.v[1] % x.v[2])
      [] x.t = "str"  -> <<"u", "'">> \o ReprChars(x.v, 1) \o <<"'">>
      [] x.t = "list" -> <<"[">> \o ReprItems(x.v, 1) \o <<"]">>
      [] x.t = "dict" -> <<"{">> \o ReprPairs(x.v, KeyOrder(DOMAIN x.v), 1) \o <<"}">>

\* str(x) where it does not raise (IsAscii): the text of a string, the repr
\* of anything else
PyStr(x) == IF x.t = "str" THEN x.v ELSE Repr(x)

(* ------------------------------------------------------------------ *)
(* The match methods of Expect                                        *)
(* ------------------------------------------------------------------ *)

NoMessage == [fmt |-> "", key |-> << >>, found |-> None, expected |-> None]
Pass == [exc |-> "none", message |-> NoMessage]

\* raise RuntimeError(msg or '<fmt>'.format(AE_ERR, key, found, expected)):
\* the text is formatted only when no msg is given, and formatting a unicode
\* object that is not ASCII into the byte string raises UnicodeEncodeError
Fail(msg, fmt, key, found, expected) ==
    IF Truthy(msg)
    THEN [exc |-> "RuntimeError",
          message |-> [fmt |-> "msg", key |-> << >>, found |-> msg, expected |-> None]]
    ELSE IF ~IsAscii(found) \/ ~IsAscii(expected)
    THEN [exc |-> "UnicodeEncodeError", message |-> NoMessage]
    ELSE [exc |-> "RuntimeError",
          message |-> [fmt |-> fmt, key |-> key, found |-> found, expected |-> expected]]

\* an exception the method does not raise itself (TypeError of an operator)
Error(exc) == [exc |-> exc, message |-> NoMessage]

_is(key, returned, match, msg) ==
    IF ~IsAscii(returned) THEN Error("UnicodeEncodeError")
    ELSE IF StrV(PyStr(returned)) # match
    THEN Fail(msg, "Key: Found: Expected:", key, StrV(PyStr(returned)), match)
    ELSE Pass

_is_not(key, returned, match, msg) ==
    IF ~IsAscii(returned) THEN Error("UnicodeEncodeError")
    ELSE IF StrV(PyStr(returned)) = match
    THEN Fail(msg, "Key: Found: Expected to not be:", key, StrV(PyStr(returned)), match)
    ELSE Pass

_empty(key, returned, match, msg) ==
    IF Truthy(returned)
    THEN Fail(msg, "Key: Found: Expected to be empty.", key, returned, None)
    ELSE Pass

_not_empty(key, returned, match, msg) ==
    IF ~Truthy(returned)
    THEN Fail(msg, "Key: Found: Expected to not be empty.", key, returned, None)
    ELSE Pass

_starts_with(key, returned, match, msg) ==
    IF ~IsAscii(returned) THEN Error("UnicodeEncodeError")
    ELSE IF match.t # "str" THEN Error("TypeError")
    ELSE IF ~StartsWith(PyStr(returned), match.v)
    THEN Fail(msg, "Key: Found: Expected to start with:", key, StrV(PyStr(returned)), match)
    ELSE Pass

\* match in returned, for a list
InList(xs, match) == \E i \in DOMAIN xs : xs[i] = match

\* _contains without the branch for a dict
_containsNoDict(key, returned, match, msg) ==
    IF returned.t = "str"
    THEN IF match.t # "str" THEN Error("TypeError")
         ELSE IF ~Contains(returned.v, match.v)
         THEN Fail(msg, "Key: Found: Expected to contain:", key, returned, match)
         ELSE Pass
    ELSE IF returned.t = "list"
    THEN IF ~InList(returned.v, match)
         THEN Fail(msg, "Did not find in", key, None, match) ELSE Pass
    ELSE Fail(msg, "Unable to determine type of return value", << >>, None, None)

_contains(key, returned, match, msg) ==
    IF returned.t = "str"
    THEN IF match.t # "str" THEN Error("TypeError")
         ELSE IF ~Contains(returned.v, match.v)
         THEN Fail(msg, "Key: Found: Expected to contain:", key, returned, match)
         ELSE Pass
    ELSE IF returned.t = "list"
    THEN IF ~InList(returned.v, match)
         THEN Fail(msg, "Did not find in", key, None, match) ELSE Pass
    ELSE IF returned.t = "dict"
    THEN IF ~(match.t = "str" /\ match.v \in DOMAIN returned.v)
         THEN Fail(msg, "Did not find key in", << >>, returned, match) ELSE Pass
    ELSE Fail(msg, "Unable to determine type of return value", << >>, None, None)

_does_not_contain(key, returned, match, msg) ==
    IF returned.t = "str"
    THEN IF match.t # "str" THEN Error("TypeError")
         ELSE IF Contains(returned.v, match.v)
         THEN Fail(msg, "Key: Found: Expected to not contain:", key, returned, match)
         ELSE Pass
    ELSE IF returned.t = "list"
    THEN IF InList(returned.v, match)
         THEN Fail(msg, "Found in", key, None, match) ELSE Pass
    ELSE IF returned.t = "dict"
    THEN IF match.t = "str" /\ match.v \in DOMAIN returned.v
         THEN Fail(msg, "Found key in", << >>, returned, match) ELSE Pass
    ELSE Fail(None, "Unable to determine type of return value", << >>, None, None)

\* the characters re gives a meaning other than themselves; of these the
\* patterns of the model use '.', which matches any character of a line
ReMeta == {".", "^", "$", "*", "+", "?", "{", "}", "[", "]", "\\", "|", "(", ")"}
IsLiteral(s) == \A i \in DOMAIN s : s[i] \notin (ReMeta \ {"."})

\* re.compile("\s*{}".format(match)).search(line) finds a match: \s* may
\* match nothing, so the pattern matches somewhere in the line
ReSearch(match, line) ==
    \E i \in 0..(Len(line) - Len(match)) :
       \A j \in DOMAIN match : match[j] = "." \/ line[i + j] = match[j]

_contains_line(key, returned, match, msg) ==
    IF returned.t = "str"
    THEN IF StrV(Strip(returned.v)) # match
         THEN Fail(msg, "Key: Found: Expected to be:", key, returned, match)
         ELSE Pass
    ELSE IF returned.t = "list"
    THEN IF ~IsAscii(match) THEN Error("UnicodeEncodeError")
         ELSE IF ~IsLiteral(PyStr(match)) THEN Error("re")
         ELSE IF \E i \in DOMAIN returned.v : returned.v[i].t # "str"
         THEN Error("TypeError")
         ELSE IF ~\E i \in DOMAIN returned.v : ReSearch(PyStr(match), returned.v[i].v)
         THEN Fail(msg, "Did not find in", key, None, match) ELSE Pass
    ELSE Fail(msg, "Unable to determine type of return value", << >>, None, None)

_does_not_contain_line(key, returned, match, msg) ==
    IF returned.t = "str"
    THEN IF returned = match
         THEN Fail(msg, "Found in key, Expected to not be found", key, None, match)
         ELSE Pass
    ELSE IF returned.t = "list"
    THEN IF InList(returned.v, match)
         THEN Fail(msg, "Found in", key, None, match) ELSE Pass
    ELSE Fail(None, "Unable to determine type of return value", << >>, None, None)

RECURSIVE Pow10(_)
Pow10(k) == IF k = 0 THEN 1 ELSE 10 * Pow10(k - 1)

\* the part of a numeral after its sign
Unsigned(s) == IF Len(s) > 0 /\ s[1] \in {"-", "+"} THEN Tail(s) ELSE s
SignOf(s) == IF Len(s) > 0 /\ s[1] = "-" THEN -1 ELSE 1
DotsOf(s) == {i \in DOMAIN s : s[i] = "."}
IntPart(s) == SubSeq(s, 1, (CHOOSE i \in DotsOf(s) : TRUE) - 1)
FracPart(s) == SubSeq(s, (CHOOSE i \in DotsOf(s) : TRUE) + 1, Len(s))

\* float(s) for a string with a decimal point: the number n / d, else ValueError
ParseFloat(s) ==
    IF Cardinality(DotsOf(Unsigned(s))) # 1 THEN [ok |-> FALSE, n |-> 0, d |-> 1]
    ELSE IF /\ IntPart(Unsigned(s)) \o FracPart(Unsigned(s)) # << >>
            /\ AllDigits(IntPart(Unsigned(s)) \o FracPart(Unsigned(s)))
    THEN [ok |-> TRUE,
          n |-> SignOf(s) * DigitsVal(IntPart(Unsigned(s)) \o FracPart(Unsigned(s)), 1, 0),
          d |-> Pow10(Len(FracPart(Unsigned(s))))]
    ELSE [ok |-> FALSE, n |-> 0, d |-> 1]

NumV(n, d) == [t |-> "num", v |-> <<n, d>>]

\* int(x), and float(x) after the ValueError of int(x): the number, the
\* RuntimeError of a string that is no number, the TypeError of int() for
\* an argument that is neither a string nor a number. The guard before
\* int(x) is true of every value, so a float is converted too and loses
\* its fraction. (The strings compared as numbers are ASCII.)
Coerce(key, x, fmt) ==
    IF x.t = "int" THEN [exc |-> "none", num |-> NumV(x.v, 1), message |-> NoMessage]
    ELSE IF x.t = "float"
    THEN [exc |-> "none", num |-> NumV(x.v[1] \div x.v[2], 1), message |-> NoMessage]
    ELSE IF x.t # "str" THEN [exc |-> "TypeError", num |-> None, message |-> NoMessage]
    ELSE IF ParseInt(Strip(x.v)).ok
    THEN [exc |-> "none", num |-> NumV(ParseInt(Strip(x.v)).n, 1), message |-> NoMessage]
    ELSE IF ParseFloat(Strip(x.v)).ok
    THEN [exc |-> "none", num |-> NumV(ParseFloat(Strip(x.v)).n, ParseFloat(Strip(x.v)).d),
          message |-> NoMessage]
    ELSE [exc |-> "RuntimeError", num |-> None,
          message |-> [fmt |-> fmt, key |-> key, found |-> x, expected |-> None]]

\* a <= b for numbers n / d
NumLeq(a, b) == a.v[1] * b.v[2] <= b.v[1] * a.v[2]

Compare(key, r, m, msg, family) ==
    IF r.exc # "none" THEN [exc |-> r.exc, message |-> r.message]
    ELSE IF m.exc # "none" THEN [exc |-> m.exc, message |-> m.message]
    ELSE IF family = "greater"
    THEN IF NumLeq(r.num, m.num)
         THEN Fail(msg, "Key: Found: Should be greater than:", key, r.num, m.num)
         ELSE Pass
    ELSE IF NumLeq(m.num, r.num)
         THEN \* raise RuntimeError(msg=...): RuntimeError takes no keyword arguments
              Error("TypeError")
         ELSE Pass

_greater(key, returned, match, msg) ==
    Compare(key,
            Coerce(key, returned, "Key: Returned: must compare to an int or float."),
            Coerce(key, match, "Key: Match: must provide an int or float as a match value."),
            msg, "greater")

_less(key, returned, match, msg) ==
    Compare(key,
            Coerce(key, returned, "Key: Returned: must compare to an int or float."),
            Coerce(key, match, "Key: Match: must provide an int or float as a match value."),
            msg, "less")

(* ------------------------------------------------------------------ *)
(* Expect.expect                                                      *)
(* ------------------------------------------------------------------ *)

\* the match methods of the class: each name with the method it delegates to
Methods == <<
    [name |-> <<"_","i","s">>, family |-> "is"],
    [name |-> <<"_","i","s","_","e","q","u","a","l","_","t","o">>, family |-> "is"],
    [name |-> <<"_","i","s","e","q","u","a","l","t","o">>, family |-> "is"],
    [name |-> <<"_","e","q","u","a","l","s">>, family |-> "is"],
    [name |-> <<"_","t","o","_","b","e">>, family |-> "is"],
    [name |-> <<"_","t","o","b","e">>, family |-> "is"],
    [name |-> <<"_","i","s","_","n","o","t">>, family |-> "is_not"],
    [name |-> <<"_","i","s","n","o","t">>, family |-> "is_not"],
    [name |-> <<"_","i","s","_","n","o","t","_","e","q","u","a","l","_","t","o">>, family |-> "is_not"],
    [name |-> <<"_","i","s","n","o","t","e","q","u","a","l","t","o">>, family |-> "is_not"],
    [name |-> <<"_","t","o","_","n","o","t","_","b","e">>, family |-> "is_not"],
    [name |-> <<"_","t","o","n","o","t","b","e">>, family |-> "is_not"],
    [name |-> <<"_","e","m","p","t","y">>, family |-> "empty"],
    [name |-> <<"_","i","s","_","e","m","p","t","y">>, family |-> "empty"],
    [name |-> <<"_","i","s","e","m","p","t","y">>, family |-> "empty"],
    [name |-> <<"_","n","o","t","_","e","m","p","t","y">>, family |-> "not_empty"],
    [name |-> <<"_","i","s","_","n","o","t","_","e","m","p","t","y">>, family |-> "not_empty"],
    [name |-> <<"_","i","s","n","o","t","e","m","p","t","y">>, family |-> "not_empty"],
    [name |-> <<"_","s","t","a","r","t","s","_","w","i","t","h">>, family |-> "starts_with"],
    [name |-> <<"_","s","t","a","r","t","s","w","i","t","h">>, family |-> "starts_with"],
    [name |-> <<"_","b","e","g","i","n","s","_","w","i","t","h">>, family |-> "starts_with"],
    [name |-> <<"_","b","e","g","i","n","s","w","i","t","h">>, family |-> "starts_with"],
    [name |-> <<"_","c","o","n","t","a","i","n","s">>, family |-> "contains"],
    [name |-> <<"_","t","o","_","c","o","n","t","a","i","n">>, family |-> "contains"],
    [name |-> <<"_","t","o","c","o","n","t","a","i","n">>, family |-> "contains"],
    [name |-> <<"_","d","o","e","s","_","n","o","t","_","c","o","n","t","a","i","n">>, family |-> "does_not_contain"],
    [name |-> <<"_","d","o","e","s","n","o","t","c","o","n","t","a","i","n">>, family |-> "does_not_contain"],
    [name |-> <<"_","t","o","_","n","o","t","_","c","o","n","t","a","i","n">>, family |-> "does_not_contain"],
    [name |-> <<"_","t","o","n","o","t","c","o","n","t","a","i","n">>, family |-> "does_not_contain"],
    [name |-> <<"_","c","o","n","t","a","i","n","s","_","l","i","n","e">>, family |-> "contains_line"],
    [name |-> <<"_","t","o","_","c","o","n","t","a","i","n","_","l","i","n","e">>, family |-> "contains_line"],
    [name |-> <<"_","t","o","c","o","n","t","a","i","n","l","i","n","e">>, family |-> "contains_line"],
    [name |-> <<"_","d","o","e","s","_","n","o","t","_","c","o","n","t","a","i","n","_","l","i","n","e">>, family |-> "does_not_contain_line"],
    [name |-> <<"_","d","o","e","s","n","o","t","c","o","n","t","a","i","n","l","i","n","e">>, family |-> "does_not_contain_line"],
    [name |-> <<"_","t","o","_","n","o","t","_","c","o","n","t","a","i","n","_","l","i","n","e">>, family |-> "does_not_contain_line"],
    [name |-> <<"_","t","o","n","o","t","c","o","n","t","a","i","n","l","i","n","e">>, family |-> "does_not_contain_line"],
    [name |-> <<"_","g","r","e","a","t","e","r">>, family |-> "greater"],
    [name |-> <<"_","i","s","_","g","r","e","a","t","e","r">>, family |-> "greater"],
    [name |-> <<"_","i","s","g","r","e","a","t","e","r">>, family |-> "greater"],
    [name |-> <<"_","i","s","_","g","r","e","a","t","e","r","_","t","h","a","n">>, family |-> "greater"],
    [name |-> <<"_","i","s","g","r","e","a","t","e","r","t","h","a","n">>, family |-> "greater"],
    [name |-> <<"_","g","r","e","a","t","e","r","_","t","h","a","n">>, family |-> "greater"],
    [name |-> <<"_","g","r","e","a","t","e","r","t","h","a","n">>, family |-> "greater"],
    [name |-> <<"_","l","e","s","s">>, family |-> "less"],
    [name |-> <<"_","i","s","_","l","e","s","s">>, family |-> "less"],
    [name |-> <<"_","i","s","l","e","s","s">>, family |-> "less"],
    [name |-> <<"_","i","s","_","l","e","s","s","_","t","h","a","n">>, family |-> "less"],
    [name |-> <<"_","i","s","l","e","s","s","t","h","a","n">>, family |-> "less"],
    [name |-> <<"_","l","e","s","s","_","t","h","a","n">>, family |-> "less"],
    [name |-> <<"_","l","e","s","s","t","h","a","n">>, family |-> "less"]
>>

\* '_{}'.format(match_type.replace(' ', '_').lower())
MatchString(match_type) == <<"_">> \o Lower(Replace(match_type, " ", "_"))

\* getattr(self, match_string) finds a match method
HasMethod(match_string) == \E i \in DOMAIN Methods : Methods[i].name = match_string
\* _to_be written to call _is_not
FamilyOfToBe(match_string) ==
    IF match_string = <<"_","t","o","_","b","e">> THEN "is_not"
    ELSE Methods[CHOOSE i \in DOMAIN Methods : Methods[i].name = match_string].family

FamilyOf(match_string) ==
    Methods[CHOOSE i \in DOMAIN Methods : Methods[i].name = match_string].family

\* getattr(self, match_string)(keylist, returned, match_value, msg)
CallMethod(family, keylist, returned, match_value, msg) ==
    CASE family = "is" -> _is(keylist, returned, match_value, msg)
      [] family = "is_not" -> _is_not(keylist, returned, match_value, msg)
      [] family = "empty" -> _empty(keylist, returned, match_value, msg)
      [] family = "not_empty" -> _not_empty(keylist, returned, match_value, msg)
      [] family = "starts_with" -> _starts_with(keylist, returned, match_value, msg)
      [] family = "contains" -> _contains(keylist, returned, match_value, msg)
      [] family = "does_not_contain" -> _does_not_contain(keylist, returned, match_value, msg)
      [] family = "contains_line" -> _contains_line(keylist, returned, match_value, msg)
      [] family = "does_not_contain_line" ->
            _does_not_contain_line(keylist, returned, match_value, msg)
      [] family = "greater" -> _greater(keylist, returned, match_value, msg)
      [] family = "less" -> _less(keylist, returned, match_value, msg)

\* the outcome of a call of expect: the exception raised ("none": the keyword
\* passes), the step that raised it, the value handed to the match method and
\* the method called
Outcome(exc, stage, returned, family, message) ==
    [exc |-> exc, stage |-> stage, returned |-> returned, family |-> family,
     message |-> message]

ExpectMatch(verdict, returned, family) ==
    Outcome(verdict.exc, "match", returned, family, verdict.message)

\* the match method looked up before the key path is resolved
ExpectResolvedTypeFirst(res, keylist, match_string, match_value, msg) ==
    IF ~HasMethod(match_string)
    THEN Outcome("ValueError", "match_type", None, "", NoMessage)
    ELSE IF res.exc # "none" THEN Outcome(res.exc, "key", None, "", NoMessage)
    ELSE ExpectMatch(CallMethod(FamilyOf(match_string), keylist, res.val, match_value, msg),
                     res.val, FamilyOf(match_string))

ExpectResolved(res, keylist, match_string, match_value, msg) ==
    IF res.exc # "none" THEN Outcome(res.exc, "key", None, "", NoMessage)
    ELSE IF ~HasMethod(match_string)
    THEN Outcome("ValueError", "match_type", None, "", NoMessage)
    ELSE ExpectMatch(CallMethod(FamilyOf(match_string), keylist, res.val, match_value, msg),
                     res.val, FamilyOf(match_string))

\* expect(key, match_type, match_value, msg) against a stored result
ExpectOn(returned, key, match_type, match_value, msg) ==
    ExpectResolved(ResolveKey(key, returned, ExpectWholeKeys), SplitWs(key),
                   MatchString(match_type), match_value, msg)

\* returned = self.result.get(index): no result read as None
expectGet(key, match_type, match_value, msg) ==
    ExpectOn(IF current \in DOMAIN result THEN result[current] ELSE None,
             key, match_type, match_value, msg)

\* expect(key, match_type, match_value, msg)
expect(key, match_type, match_value, msg) ==
    IF current \notin DOMAIN result
    THEN Outcome("KeyError", "result", None, "", NoMessage)
    ELSE ExpectOn(result[current], key, match_type, match_value, msg)

\* the keyword Expect
Expect(key, match_type, match_value, msg) ==
    /\ last' = [op |-> "expect", key |-> key, match_type |-> match_type,
                match_value |-> match_value, msg |-> msg,
                out |-> expect(key, match_type, match_value, msg)]
    /\ UNCHANGED <<connections, aliases, current, import_cmd, switch_cmd, result, args>>

\* the keyword Get Value
GetValue(key) ==
    /\ last' = [op |-> "get_value", key |-> key, out |-> get_value(key)]
    /\ UNCHANGED <<connections, aliases, current, import_cmd, switch_cmd, result, args>>

\* record_output(switch_id, cmd, encoding): the exception raised, the value
\* returned and the switch the command was sent to (0: none). get_switch
\* looks the switch up without making it the current one, and enable runs
\* the command on the current connection; b is how that switch answers.
record_output(switch_id, cmd, encoding, b) ==
    LET index == get_switch(switch_id)
        reply == IF current = 0 THEN [exc |-> "AssertionError", val |-> None]
                 ELSE enable(current, cmd.v, encoding, b)
        found == IF Truthy(cmd) THEN reply
                 ELSE IF index \in DOMAIN result
                 THEN [exc |-> "none", val |-> result[index]]
                 ELSE [exc |-> "KeyError", val |-> None]
        dev == IF Truthy(cmd) THEN current ELSE 0
    IN IF found.exc # "none" THEN [exc |-> found.exc, val |-> None, dev |-> dev]
       ELSE IF found.val.t = "dict"
       THEN [exc |-> "none", dev |-> dev,
             val |-> IF s_output \in DOMAIN found.val.v THEN found.val.v[s_output]
                     ELSE found.val]
       ELSE IF found.val.t = "list"
       THEN IF InList(found.val.v, StrV(s_output))
            THEN [exc |-> "TypeError", val |-> None, dev |-> dev]
            ELSE [exc |-> "none", val |-> found.val, dev |-> dev]
       ELSE \* 'output' in None: argument of type 'NoneType' is not iterable
            [exc |-> "TypeError", val |-> None, dev |-> dev]

\* Record Output written to keep what it has read as the result of the switch
RecordOutputStore(switch_id, cmd, encoding, b) ==
    /\ last' = [op |-> "record", switch_id |-> switch_id, cmd |-> cmd,
                encoding |-> encoding, out |-> record_output(switch_id, cmd, encoding, b)]
    /\ result' = IF record_output(switch_id, cmd, encoding, b).exc = "none"
                 THEN Put(result, get_switch(switch_id),
                          record_output(switch_id, cmd, encoding, b).val)
                 ELSE result
    /\ UNCHANGED <<connections, aliases, current, import_cmd, switch_cmd, args>>

\* the keyword Record Output
RecordOutput(switch_id, cmd, encoding, b) ==
    /\ last' = [op |-> "record", switch_id |-> switch_id, cmd |-> cmd,
                encoding |-> encoding, out |-> record_output(switch_id, cmd, encoding, b)]
    /\ UNCHANGED <<connections, aliases, current, import_cmd, switch_cmd, result, args>>

(* ------------------------------------------------------------------ *)
(* Specification: a session with several switches                     *)
(* ------------------------------------------------------------------ *)

CmdHostname == StrV(s_show_hostname)
CmdRunningAll == StrV(s_show_running_config_all)
CmdInterfaces == StrV(s_show_interfaces)

AliasChoices == {""}
\* an index above connections names no switch
SelectorChoices == {NoSel} \cup {ByIndex(i) : i \in 1..MaxDevices}
CmdChoices == <<None, CmdHostname, CmdRunningAll>>
ImportChoices == <<None, CmdHostname>>
Answers == {"fail", "v1"}

\* the arguments of Expect and Get Value in a session with several switches
SessionKeys == <<s_hostname>>
SessionMatchTypes == << <<"i","s">> >>
SessionMatchValues == <<StrV(s_sw \o <<"1">>)>>

Args(key, match_type, match_value, msg) ==
    [key |-> key, match_type |-> match_type, match_value |-> match_value, msg |-> msg]
NoArgs == Args(s_config, <<"i","s">>, None, None)

Init ==
    /\ connections = 0
    /\ aliases = << >>
    /\ current = 0
    /\ \E i \in DOMAIN ImportChoices : import_cmd = ImportChoices[i]
    /\ switch_cmd = << >>
    /\ result = << >>
    /\ last = [op |-> "init"]
    /\ args = NoArgs

\* the switches a call of get_command_output sends a command to
Targets(switch_id) ==
    IF switch_id.kind = "none" THEN 1..connections
    ELSE IF get_switch(switch_id) # 0 THEN {get_switch(switch_id)}
    ELSE {current}

\* ConnectionCache.switch(None) is reached only for a switch_id naming no switch
NullSwitchChoices(switch_id) ==
    IF switch_id.kind # "none" /\ get_switch(switch_id) = 0 /\ current # 0
    THEN {"raise", "keep"} ELSE {"raise"}

\* the switch that rejects the command of this call (-1: none does)
FailingChoices(switch_id) == {-1} \cup Targets(switch_id)

Next ==
    \/ \E alias \in AliasChoices : ConnectTo(alias)
    \/ \E x \in SelectorChoices : ChangeToSwitch(x)
    \/ \E switch_id \in SelectorChoices, c \in DOMAIN CmdChoices :
          \E failing \in FailingChoices(switch_id),
             nullSwitch \in NullSwitchChoices(switch_id) :
             GetCommandOutput(switch_id, CmdChoices[c],
                              [d \in Targets(switch_id) |->
                                  IF d = failing THEN "fail" ELSE "v1"],
                              nullSwitch)
    \/ \E k \in DOMAIN SessionKeys, t \in DOMAIN SessionMatchTypes,
          v \in DOMAIN SessionMatchValues :
          Expect(SessionKeys[k], SessionMatchTypes[t], SessionMatchValues[v], None)
    \/ \E k \in DOMAIN SessionKeys : GetValue(SessionKeys[k])

Spec == Init /\ [][Next]_vars

\* the session with Record Output as well: calls with a selector, with and
\* without a command; the first switch may be given an alias
NextRecord ==
    \/ \E alias \in (IF connections = 0 THEN {"", "uut"} ELSE {""}) : ConnectTo(alias)
    \/ \E x \in SelectorChoices \cup {ByAlias("uut")} : ChangeToSwitch(x)
    \/ \E switch_id \in SelectorChoices, b \in Answers :
          GetCommandOutput(switch_id, CmdHostname, [d \in Targets(switch_id) |-> b], "raise")
    \/ Expect(SessionKeys[1], SessionMatchTypes[1], SessionMatchValues[1], None)
    \/ GetValue(SessionKeys[1])
    \/ \E switch_id \in SelectorChoices : RecordOutput(switch_id, None, "text", "v1")
    \/ \E switch_id \in SelectorChoices, c \in {CmdHostname, CmdRunningAll}, b \in Answers,
          encoding \in {"text", "json"} :
          RecordOutput(switch_id, c, encoding, b)

SpecRecord == Init /\ [][NextRecord]_vars

(* ------------------------------------------------------------------ *)
(* AristaLibrary.list_extensions                                      *)
(* ------------------------------------------------------------------ *)

\* list_extensions(available, installed) for the reply of 'show extensions':
\* extensions is the dict name -> [presence, status] of a json reply.
\* available and installed are True, False or a string; a string is true in
\* a condition. `status is not 'installed'` compares object identity: for a
\* status equal to 'installed' the result depends on whether the decoder
\* returned the very object of the literal (same). The names are returned in
\* the order of the dict; the model keeps them as a set.
list_extensions(extensions, available, installed, reply, same) ==
    IF available \notin {"True", "False", "any"} \/ installed \notin {"True", "False", "forced", "any"}
    THEN [exc |-> "AssertionError", val |-> {}, none |-> FALSE]
    ELSE IF reply = "fail" THEN [exc |-> "CommandError", val |-> {}, none |-> FALSE]
    ELSE IF reply # "json" THEN [exc |-> "none", val |-> {}, none |-> TRUE]
    ELSE [exc |-> "none", none |-> FALSE,
          val |-> {ext \in DOMAIN extensions :
                     /\ ~(available # "False" /\ extensions[ext].presence # "present")
                     /\ ~(available = "False" /\ extensions[ext].presence = "present")
                     /\ ~(installed # "False"
                            /\ ~(extensions[ext].status = "installed" /\ same))
                     /\ ~(installed = "forced"
                            /\ extensions[ext].status # "forceInstalled")
                     /\ ~(installed = "False"
                            /\ extensions[ext].status # "notInstalled")}]

\* the keyword List Extensions on the current switch; the arguments and the
\* reply of the switch are those drawn at the start
ListExtensions ==
    /\ current # 0
    /\ last' = [op |-> "list_extensions",
                out |-> list_extensions(args.extensions, args.available, args.installed,
                                        args.reply, args.same)]
    /\ UNCHANGED <<connections, aliases, current, import_cmd, switch_cmd, result, args>>

\* two extensions in every combination of presence and status
InitExt ==
    /\ connections = 0
    /\ aliases = << >>
    /\ current = 0
    /\ import_cmd = None
    /\ switch_cmd = << >>
    /\ result = << >>
    /\ last = [op |-> "init"]
    /\ args \in [extensions : [{"puppet", "ruby"} ->
                                  [presence : {"present", "absent"},
                                   status : {"installed", "notInstalled", "forceInstalled"}]],
                  available : {"True", "False", "any", "yes"},
                  installed : {"True", "False", "forced", "any", "yes"},
                  reply : {"json", "text", "fail"},
                  same : BOOLEAN]

SpecExt == InitExt /\ [][ConnectTo("") \/ ListExtensions]_vars

(* ------------------------------------------------------------------ *)
(* Specification: the commands of get_command_output on one switch    *)
(* ------------------------------------------------------------------ *)

DecodeCmds == <<
    None,
    StrV(s_empty),
    StrV(s_show_startup_config),
    StrV(s_show_running_config_all),
    StrV(s_show_running_config),
    StrV(s_show_running_config_section),
    StrV(s_show_hostname),
    StrV(s_show_interfaces),
    ListV(<<StrV(s_show_hostname)>>),
    ListV(<<StrV(s_show_running_config)>>) >>
DecodeAnswers == {"fail", "v1", "v2"}

InitOne ==
    /\ connections = 0
    /\ aliases = << >>
    /\ current = 0
    /\ import_cmd = None
    /\ switch_cmd = << >>
    /\ result = << >>
    /\ last = [op |-> "init"]
    /\ args = NoArgs

NextDecode ==
    \/ connections = 0 /\ ConnectTo("")
    \/ \E switch_id \in {NoSel, ByIndex(1)}, c \in DOMAIN DecodeCmds, b \in DecodeAnswers :
          GetCommandOutput(switch_id, DecodeCmds[c], [d \in Targets(switch_id) |-> b], "raise")
    \/ GetValue(s_config)

SpecDecode == InitOne /\ [][NextDecode]_vars

(* ------------------------------------------------------------------ *)
(* Specification: the key paths of Expect and Get Value on one switch *)
(* ------------------------------------------------------------------ *)

PathCmds == <<None, CmdInterfaces, CmdRunningAll>>

PathKeys == <<
    <<"c","o","n","f","i","g">>,
    <<"C","o","n","f","i","g">>,
    <<"f","u","l","l"," ","o","u","t","p","u","t">>,
    <<"F","U","L","L"," ","O","U","T","P","U","T">>,
    <<"i","n","t","e","r","f","a","c","e","s"," ","E","t","1"," ","s","t","a","t","u","s">>,
    <<"i","n","t","e","r","f","a","c","e","s"," ","E","t","1"," ","m","t","u">>,
    <<"p","o","r","t","s">>,
    <<"p","o","r","t","s"," ","0">>,
    <<"p","o","r","t","s"," ","-","1">>,
    <<"p","o","r","t","s"," ","2">>,
    <<"p","o","r","t","s"," ","x">>,
    <<"c","o","u","n","t">>,
    <<"c","o","u","n","t"," ","x">>,
    <<"d","e","s","c","r">>,
    <<"m","i","s","s","i","n","g">>,
    <<"1">> >>

PathMatchTypes == << <<"i","s">>, <<"e","m","p","t","y">>, <<"b","o","g","u","s">> >>

PathMatchValues == <<None, StrV(<<"N","o","n","e">>), StrV(s_up)>>

\* one switch, nothing fetched; the test case calls the keywords with args
InitArgs(keys, match_types, match_values, msgs) ==
    /\ connections = 0
    /\ aliases = << >>
    /\ current = 0
    /\ import_cmd = None
    /\ switch_cmd = << >>
    /\ result = << >>
    /\ last = [op |-> "init"]
    /\ \E k \in DOMAIN keys, t \in DOMAIN match_types, v \in DOMAIN match_values,
          m \in DOMAIN msgs :
          args = Args(keys[k], match_types[t], match_values[v], msgs[m])

InitPath == InitArgs(PathKeys, PathMatchTypes, PathMatchValues, <<None>>)

NextPath ==
    \/ connections = 0 /\ ConnectTo("")
    \/ \E c \in DOMAIN PathCmds, b \in DecodeAnswers :
          GetCommandOutput(ByIndex(1), PathCmds[c], [d \in Targets(ByIndex(1)) |-> b], "raise")
    \/ Expect(args.key, args.match_type, args.match_value, args.msg)
    \/ GetValue(args.key)

SpecPath == InitPath /\ [][NextPath]_vars

(* ------------------------------------------------------------------ *)
(* Specification: the match types of Expect on one switch             *)
(* ------------------------------------------------------------------ *)

AliasCmds == <<CmdInterfaces, CmdRunningAll>>

AliasKeys == <<s_config, s_interfaces \o <<" ">> \o s_Et1 \o <<" ">> \o s_status, s_count, s_ports>>

MatchTypes == <<
    <<"i","s">>,
    <<"i","s"," ","e","q","u","a","l"," ","t","o">>,
    <<"i","s","e","q","u","a","l","t","o">>,
    <<"e","q","u","a","l","s">>,
    <<"t","o"," ","b","e">>,
    <<"t","o","b","e">>,
    <<"i","s"," ","n","o","t">>,
    <<"i","s","n","o","t">>,
    <<"i","s"," ","n","o","t"," ","e","q","u","a","l"," ","t","o">>,
    <<"i","s","n","o","t","e","q","u","a","l","t","o">>,
    <<"t","o"," ","n","o","t"," ","b","e">>,
    <<"t","o","n","o","t","b","e">>,
    <<"e","m","p","t","y">>,
    <<"i","s"," ","e","m","p","t","y">>,
    <<"i","s","e","m","p","t","y">>,
    <<"n","o","t"," ","e","m","p","t","y">>,
    <<"i","s"," ","n","o","t"," ","e","m","p","t","y">>,
    <<"i","s","n","o","t","e","m","p","t","y">>,
    <<"s","t","a","r","t","s"," ","w","i","t","h">>,
    <<"s","t","a","r","t","s","w","i","t","h">>,
    <<"b","e","g","i","n","s"," ","w","i","t","h">>,
    <<"b","e","g","i","n","s","w","i","t","h">>,
    <<"c","o","n","t","a","i","n","s">>,
    <<"t","o"," ","c","o","n","t","a","i","n">>,
    <<"t","o","c","o","n","t","a","i","n">>,
    <<"d","o","e","s"," ","n","o","t"," ","c","o","n","t","a","i","n">>,
    <<"d","o","e","s","n","o","t","c","o","n","t","a","i","n">>,
    <<"t","o"," ","n","o","t"," ","c","o","n","t","a","i","n">>,
    <<"t","o","n","o","t","c","o","n","t","a","i","n">>,
    <<"c","o","n","t","a","i","n","s"," ","l","i","n","e">>,
    <<"t","o"," ","c","o","n","t","a","i","n"," ","l","i","n","e">>,
    <<"t","o","c","o","n","t","a","i","n","l","i","n","e">>,
    <<"d","o","e","s"," ","n","o","t"," ","c","o","n","t","a","i","n"," ","l","i","n","e">>,
    <<"d","o","e","s","n","o","t","c","o","n","t","a","i","n","l","i","n","e">>,
    <<"t","o"," ","n","o","t"," ","c","o","n","t","a","i","n"," ","l","i","n","e">>,
    <<"t","o","n","o","t","c","o","n","t","a","i","n","l","i","n","e">>,
    <<"g","r","e","a","t","e","r">>,
    <<"i","s"," ","g","r","e","a","t","e","r">>,
    <<"i","s","g","r","e","a","t","e","r">>,
    <<"i","s"," ","g","r","e","a","t","e","r"," ","t","h","a","n">>,
    <<"i","s","g","r","e","a","t","e","r","t","h","a","n">>,
    <<"g","r","e","a","t","e","r"," ","t","h","a","n">>,
    <<"g","r","e","a","t","e","r","t","h","a","n">>,
    <<"l","e","s","s">>,
    <<"i","s"," ","l","e","s","s">>,
    <<"i","s","l","e","s","s">>,
    <<"i","s"," ","l","e","s","s"," ","t","h","a","n">>,
    <<"i","s","l","e","s","s","t","h","a","n">>,
    <<"l","e","s","s"," ","t","h","a","n">>,
    <<"l","e","s","s","t","h","a","n">>,
    <<"I","S">>,
    <<"I","s"," ","E","q","u","a","l"," ","T","o">>,
    <<"i","s"," ","e","q","u","a","l","t","o">>,
    <<"n","o","t","e","m","p","t","y">>,
    <<"c","o","n","t","a","i","n","s","l","i","n","e">>,
    <<"b","o","g","u","s">> >>

AliasMatchValues == <<None, StrV(s_up), StrV(<<"5">>), StrV(s_Et1)>>

AliasMsgs == <<None, StrV(<<"c","u","s","t","o","m">>)>>

InitAlias == InitArgs(AliasKeys, MatchTypes, AliasMatchValues, AliasMsgs)

NextAlias ==
    \/ connections = 0 /\ ConnectTo("")
    \/ \E c \in DOMAIN AliasCmds, b \in Answers :
          GetCommandOutput(ByIndex(1), AliasCmds[c], [d \in Targets(ByIndex(1)) |-> b], "raise")
    \/ Expect(args.key, args.match_type, args.match_value, args.msg)

SpecAlias == InitAlias /\ [][NextAlias]_vars

(* ------------------------------------------------------------------ *)
(* Specifications: the match methods on values of every type           *)
(* ------------------------------------------------------------------ *)

CmdLoad == StrV(s_show_load)

MatchCmds == <<CmdLoad, CmdInterfaces, CmdRunningAll>>

\* one switch; a command answered in one of two ways or rejected, then Expect
NextMatch ==
    \/ connections = 0 /\ ConnectTo("")
    \/ \E c \in DOMAIN MatchCmds, b \in DecodeAnswers :
          GetCommandOutput(ByIndex(1), MatchCmds[c], [d \in Targets(ByIndex(1)) |-> b], "raise")
    \/ Expect(args.key, args.match_type, args.match_value, args.msg)

\* equality, containment and line containment
InitValues ==
    InitArgs(<<s_config, s_descr, s_rate, s_count, s_load, s_ports, <<"1">> >>,
             <<<<"i","s">>,
               <<"i","s"," ","n","o","t">>,
               <<"c","o","n","t","a","i","n","s">>,
               <<"d","o","e","s"," ","n","o","t"," ","c","o","n","t","a","i","n">>,
               <<"t","o"," ","c","o","n","t","a","i","n"," ","l","i","n","e">>,
               <<"t","o"," ","n","o","t"," ","c","o","n","t","a","i","n"," ","l","i","n","e">>>>,
             <<None, StrV(<<"5">>), StrV(<<"5", ".", "7">>), StrV(<<"U+00E9">>),
               StrV(s_ip_routing), StrV(s_no_ip_routing), StrV(s_Et1), StrV(s_load)>>,
             AliasMsgs)

SpecValues == InitValues /\ [][NextMatch]_vars

\* the numeric comparisons
InitNumeric ==
    InitArgs(<<s_load, s_rate, s_count, s_ports>>,
             <<<<"g","r","e","a","t","e","r"," ","t","h","a","n">>,
               <<"i","s"," ","g","r","e","a","t","e","r">>,
               <<"l","e","s","s"," ","t","h","a","n">>,
               <<"i","s"," ","l","e","s","s"," ","t","h","a","n">>>>,
             <<None, StrV(<<"5">>), StrV(<<"3">>), StrV(<<"5", ".", "7">>), StrV(<<"9">>),
               StrV(<<"a", "b", "c">>)>>,
             AliasMsgs)

SpecNumeric == InitNumeric /\ [][NextMatch]_vars

(* ------------------------------------------------------------------ *)
(* Properties of get_command_output                                   *)
(* ------------------------------------------------------------------ *)

\* the command the precedence rule gives switch d for a call with argument
\* cmd, in the state before the call
Chosen(cmd, d) ==
    IF Truthy(cmd) THEN cmd
    ELSE IF d \in DOMAIN switch_cmd /\ Truthy(switch_cmd[d]) THEN switch_cmd[d]
    ELSE import_cmd

\* the step is a call of get_command_output
IsFetch == last'.op = "fetch"
Selected == ResolveIndex(last'.switch_id)

\* the entries of switch d are the same before and after the step
EntriesUnchanged(d) ==
    /\ d \in DOMAIN switch_cmd' <=> d \in DOMAIN switch_cmd
    /\ d \in DOMAIN switch_cmd => switch_cmd'[d] = switch_cmd[d]
    /\ d \in DOMAIN result' <=> d \in DOMAIN result
    /\ d \in DOMAIN result => result'[d] = result[d]

\* the entries of switch d were written by the step
EntriesUpdated(d) ==
    /\ d \in DOMAIN switch_cmd' /\ switch_cmd'[d] = Chosen(last'.cmd, d)
    /\ d \in DOMAIN result'

C1_Step ==
    IsFetch =>
       /\ \A i \in DOMAIN last'.ran :
             /\ last'.ran[i].cmd = Chosen(last'.cmd, last'.ran[i].index)
             /\ Truthy(last'.ran[i].cmd)
             /\ switch_cmd'[last'.ran[i].index] = last'.ran[i].cmd
             /\ \A j \in DOMAIN last'.ran :
                   last'.ran[j].index = last'.ran[i].index => j = i
       /\ (last'.switch_id.kind # "none" /\ Selected # 0 /\ Truthy(Chosen(last'.cmd, Selected)))
             => /\ Len(last'.ran) = 1
                /\ last'.ran[1].index = Selected
                /\ last'.ran[1].dev = Selected
       /\ last'.switch_id.kind # "none"
             => \A d \in 1..connections :
                   d # Selected => (/\ d \in DOMAIN switch_cmd' <=> d \in DOMAIN switch_cmd
                                    /\ d \in DOMAIN switch_cmd => switch_cmd'[d] = switch_cmd[d])

\* C1: every call of get_command_output runs on a switch d at most one command, the
\* one given by the precedence: the cmd argument, else the command remembered
\* for d, else the import default; the command run is then the one remembered
\* for d, and a call for one switch leaves the commands remembered for the
\* other switches as they were.
C1_Precedence == [][C1_Step]_vars

\* C1 witness: a call without a command has re-run the command remembered for
\* its switch, not the import default, while another switch remembers another
C1_Witness ==
    /\ last.op = "fetch" /\ last.exc = "none"
    /\ ~Truthy(last.cmd) /\ Truthy(import_cmd)
    /\ Len(last.ran) = 1
    /\ last.ran[1].cmd = CmdRunningAll /\ import_cmd # CmdRunningAll
    /\ \E e \in DOMAIN switch_cmd : e # last.ran[1].index /\ switch_cmd[e] = CmdHostname

C2_Step ==
    (/\ IsFetch
     /\ last'.switch_id.kind # "none" /\ Selected # 0
     /\ ~Truthy(Chosen(last'.cmd, Selected)))
       => /\ last'.ran = << >>
          /\ last'.exc = "none"
          /\ Selected \in DOMAIN result' /\ result'[Selected] = None

\* C2: a call of get_command_output for a switch with no cmd argument, no
\* remembered command and no import default executes no command, returns
\* normally and leaves the result of the switch cleared.
C2_NoCommandReturnsNormally == [][C2_Step]_vars

C3_OriginalStep ==
    IsFetch =>
       IF last'.switch_id.kind # "none"
       THEN \A d \in 1..connections : d # Selected => EntriesUnchanged(d)
       ELSE \A d \in 1..connections : EntriesUpdated(d)

\* C3 as stated: with a selector only the entries of the selected switch
\* change; without a selector the entries of every known switch are updated.
C3_EveryDeviceUpdated == [][C3_OriginalStep]_vars

C3_AmendedStep ==
    IsFetch =>
       IF last'.switch_id.kind # "none"
       THEN \A d \in 1..connections : d # Selected => EntriesUnchanged(d)
       ELSE IF last'.exc = "none"
       THEN \A d \in 1..connections : EntriesUpdated(d)
       ELSE \E f \in 1..connections :
               /\ \A d \in 1..f : EntriesUpdated(d)
               /\ result'[f] = None
               /\ \A d \in (f + 1)..connections : EntriesUnchanged(d)

\* C3 amended: with a selector only the entries of the selected switch change;
\* without a selector a call that returns normally has updated the entries of
\* every known switch, and a call that fails at a switch has updated the
\* entries of the switches up to that one and left the later ones unchanged.
C3_TargetsOnly == [][C3_AmendedStep]_vars

\* C3 witness: a call for all switches failed at the first one and the
\* second keeps the result of an earlier call
C3_Witness ==
    /\ last.op = "fetch" /\ last.switch_id = NoSel /\ last.exc # "none"
    /\ connections = 2 /\ Len(last.ran) = 1
    /\ 1 \in DOMAIN result /\ result[1] = None
    /\ 2 \in DOMAIN result /\ result[2] # None

IsConfigCmd(c) ==
    /\ c.t = "str"
    /\ StartsWith(c.v, s_show_startup_config) \/ StartsWith(c.v, s_show_running_config)

IsLines(r) ==
    /\ r.t = "list"
    /\ \A i \in DOMAIN r.v :
          r.v[i].t = "str" /\ \A j \in DOMAIN r.v[i].v : r.v[i].v[j] # Newline

C5_NoResult ==
    (last.op \in {"expect", "get_value"} /\ current # 0 /\ current \notin DOMAIN result)
       => /\ last.out.exc = "KeyError"
          /\ last.op = "expect" => last.out.stage = "result" /\ last.out.family = ""
          /\ last.op = "get_value" => last.out.val = None

\* C5 witness: Expect on the second switch, never fetched, after a fetch on
\* the first has stored a result
C5_Witness ==
    /\ last.op = "expect" /\ last.out.exc = "KeyError"
    /\ current = 2 /\ 2 \notin DOMAIN result
    /\ 1 \in DOMAIN result /\ result[1] # None

\* C6: whenever the result of the active switch is absent or cleared, Expect
\* raises an error whatever the key path and the match type, and Get Value
\* raises an error.
C6_MissingNeverEmpty ==
    (/\ last.op \in {"expect", "get_value"}
     /\ current # 0
     /\ current \notin DOMAIN result \/ result[current] = None)
       => last.out.exc # "none"

\* C7: for a key path equal to 'config' or 'full output' when letter case is
\* ignored, Expect descends into nothing: no path error is raised, an
\* implemented match type has its method called, and the method is given the
\* whole result of the active switch.
C7_WholeResult ==
    (/\ last.op = "expect"
     /\ current \in DOMAIN result
     /\ Lower(last.key) \in {s_config, s_full_output})
       => /\ last.out.stage \notin {"result", "key"}
          /\ HasMethod(MatchString(last.match_type)) => last.out.stage = "match"
          /\ last.out.stage = "match" => last.out.returned = result[current]

\* C7 witness: 'FULL OUTPUT' handed the list of lines to the method
C7_Witness ==
    /\ last.op = "expect" /\ current \in DOMAIN result /\ result[current] # None
    /\ Lower(last.key) = s_full_output /\ last.key # s_full_output
    /\ result[current].t = "list"
    /\ last.out.stage = "match" /\ last.out.returned = result[current]

\* what Expect resolves for this key path on the result of the active switch
Resolved(key) == ExpectOn(result[current], key, <<"i","s">>, None, None)

\* C8: for every stored result and key path Get Value returns the value
\* Expect hands to its match method for that key path, and raises exactly
\* when the path resolution of Expect raises.
C8_GetValueAgrees ==
    (/\ last.op = "get_value"
     /\ current # 0 /\ current \in DOMAIN result /\ result[current] # None)
       => /\ last.out.exc = "none" <=> Resolved(last.key).stage # "key"
          /\ last.out.exc = "none" => last.out.val = Resolved(last.key).returned
          /\ last.out.exc # "none" => last.out.exc = Resolved(last.key).exc

\* the resolution of the rule: a segment names a key of a mapping or is a
\* non-negative integer in the range of a sequence; anything else fails
RECURSIVE RuleResolve(_, _, _)
RuleResolve(val, segs, i) ==
    IF i > Len(segs) THEN [ok |-> TRUE, val |-> val]
    ELSE IF val.t = "dict" /\ segs[i] \in DOMAIN val.v
    THEN RuleResolve(val.v[segs[i]], segs, i + 1)
    ELSE IF val.t = "list" /\ AllDigits(segs[i]) /\ DigitsVal(segs[i], 1, 0) < Len(val.v)
    THEN RuleResolve(val.v[DigitsVal(segs[i], 1, 0) + 1], segs, i + 1)
    ELSE [ok |-> FALSE, val |-> None]

\* C9: Expect resolves the segments of a key path from left to right by the
\* rule; when the rule resolves the path the method is given the value it
\* names, and in every other case an error is raised before any match method
\* is looked up or called.
C9_PathRule ==
    (/\ last.op = "expect"
     /\ current # 0 /\ current \in DOMAIN result /\ result[current] # None
     /\ Lower(last.key) \notin {s_config, s_full_output})
       => IF RuleResolve(result[current], SplitWs(last.key), 1).ok
          THEN /\ last.out.stage # "key"
               /\ last.out.stage = "match" =>
                     last.out.returned = RuleResolve(result[current], SplitWs(last.key), 1).val
          ELSE last.out.stage = "key" /\ last.out.exc # "none"

\* the match types of each family, as the keyword documents them
AliasFamilies == <<
    {<<"i","s">>,
     <<"i","s"," ","e","q","u","a","l"," ","t","o">>,
     <<"i","s","e","q","u","a","l","t","o">>,
     <<"e","q","u","a","l","s">>,
     <<"t","o"," ","b","e">>,
     <<"t","o","b","e">>},
    {<<"i","s"," ","n","o","t">>,
     <<"i","s","n","o","t">>,
     <<"i","s"," ","n","o","t"," ","e","q","u","a","l"," ","t","o">>,
     <<"i","s","n","o","t","e","q","u","a","l","t","o">>,
     <<"t","o"," ","n","o","t"," ","b","e">>,
     <<"t","o","n","o","t","b","e">>},
    {<<"e","m","p","t","y">>,
     <<"i","s"," ","e","m","p","t","y">>,
     <<"i","s","e","m","p","t","y">>},
    {<<"n","o","t"," ","e","m","p","t","y">>,
     <<"i","s"," ","n","o","t"," ","e","m","p","t","y">>,
     <<"i","s","n","o","t","e","m","p","t","y">>},
    {<<"s","t","a","r","t","s"," ","w","i","t","h">>,
     <<"s","t","a","r","t","s","w","i","t","h">>,
     <<"b","e","g","i","n","s"," ","w","i","t","h">>,
     <<"b","e","g","i","n","s","w","i","t","h">>},
    {<<"c","o","n","t","a","i","n","s">>,
     <<"t","o"," ","c","o","n","t","a","i","n">>,
     <<"t","o","c","o","n","t","a","i","n">>},
    {<<"d","o","e","s"," ","n","o","t"," ","c","o","n","t","a","i","n">>,
     <<"d","o","e","s","n","o","t","c","o","n","t","a","i","n">>,
     <<"t","o"," ","n","o","t"," ","c","o","n","t","a","i","n">>,
     <<"t","o","n","o","t","c","o","n","t","a","i","n">>},
    {<<"c","o","n","t","a","i","n","s"," ","l","i","n","e">>,
     <<"t","o"," ","c","o","n","t","a","i","n"," ","l","i","n","e">>,
     <<"t","o","c","o","n","t","a","i","n","l","i","n","e">>},
    {<<"d","o","e","s"," ","n","o","t"," ","c","o","n","t","a","i","n"," ","l","i","n","e">>,
     <<"d","o","e","s","n","o","t","c","o","n","t","a","i","n","l","i","n","e">>,
     <<"t","o"," ","n","o","t"," ","c","o","n","t","a","i","n"," ","l","i","n","e">>,
     <<"t","o","n","o","t","c","o","n","t","a","i","n","l","i","n","e">>},
    {<<"g","r","e","a","t","e","r">>,
     <<"i","s"," ","g","r","e","a","t","e","r">>,
     <<"i","s","g","r","e","a","t","e","r">>,
     <<"i","s"," ","g","r","e","a","t","e","r"," ","t","h","a","n">>,
     <<"i","s","g","r","e","a","t","e","r","t","h","a","n">>,
     <<"g","r","e","a","t","e","r"," ","t","h","a","n">>,
     <<"g","r","e","a","t","e","r","t","h","a","n">>},
    {<<"l","e","s","s">>,
     <<"i","s"," ","l","e","s","s">>,
     <<"i","s","l","e","s","s">>,
     <<"i","s"," ","l","e","s","s"," ","t","h","a","n">>,
     <<"i","s","l","e","s","s","t","h","a","n">>,
     <<"l","e","s","s"," ","t","h","a","n">>,
     <<"l","e","s","s","t","h","a","n">>} >>

RemoveSpaces(s) == SelectSeq(s, LAMBDA c : c # " ")
Normalized(match_type) == Lower(RemoveSpaces(match_type))

\* the families whose documented aliases include the normalised match type
FamiliesOf(match_type) ==
    {f \in DOMAIN AliasFamilies :
        \E a \in AliasFamilies[f] : Normalized(a) = Normalized(match_type)}

\* an Expect call that found a stored result and resolved its key path
ReachedMatchType ==
    /\ last.op = "expect" /\ current \in DOMAIN result /\ result[current] # None
    /\ last.out.stage \notin {"result", "key"}

\* C11: a match type is recognised whatever its letter case and spacing: when
\* its lowercased, space-free form is that of a documented alias, Expect
\* dispatches to the predicate of that alias and gives the outcome the alias
\* gives.
C11_CaseAndSpaceInsensitive ==
    ReachedMatchType
       => \A f \in FamiliesOf(last.match_type) :
             /\ last.out.stage = "match"
             /\ \A a \in AliasFamilies[f] :
                   /\ ExpectOn(result[current], last.key, a, last.match_value,
                               last.msg).exc = last.out.exc
                   /\ ExpectOn(result[current], last.key, a, last.match_value,
                               last.msg).message = last.out.message

\* the error of a match type that is not implemented
Unimplemented(out) == out.stage = "match_type" /\ out.exc = "ValueError"

\* C12: Expect raises the unimplemented-match error exactly when the
\* normalised match type names no predicate; the error is of another kind than
\* the one a false predicate raises, and a known alias never raises it.
C12_UnimplementedIffUnknown ==
    ReachedMatchType
       => /\ Unimplemented(last.out) <=> FamiliesOf(last.match_type) = {}
          /\ last.out.stage = "match" => last.out.exc # "ValueError"

\* a value the numeric predicates can read as a number
IsNumber(x) ==
    \/ x.t \in {"int", "float"}
    \/ x.t = "str" /\ (ParseInt(Strip(x.v)).ok \/ ParseFloat(Strip(x.v)).ok)

\* a call that reached the predicate of its family with operands the
\* predicate is defined on, so that the predicate is either true or false: a
\* match string; numbers for the numeric families; a string, sequence or
\* mapping for contains; a string or sequence for the line families
Evaluated ==
    /\ ReachedMatchType /\ last.out.stage = "match" /\ last.match_value.t = "str"
    /\ last.out.family \in {"greater", "less"}
          => IsNumber(last.out.returned) /\ IsNumber(last.match_value)
    /\ last.out.family \in {"contains", "does_not_contain"}
          => last.out.returned.t \in {"str", "list", "dict"}
    /\ last.out.family \in {"contains_line", "does_not_contain_line"}
          => last.out.returned.t \in {"str", "list"}

\* C13: in every family a predicate that is true lets Expect return normally
\* and a predicate that is false raises the assertion failure, an error of the
\* same kind for all families that carries a message.
C13_OneKindOfFailure ==
    Evaluated
       => \/ last.out.exc = "none" /\ last.out.message = NoMessage
          \/ last.out.exc = "RuntimeError" /\ last.out.message.fmt # ""

\* C14: when Expect is given a message and the predicate is false, the
\* failure raised is the assertion failure carrying exactly that message, in
\* place of the generated one.
C14_MessageOverride ==
    (Evaluated /\ Truthy(last.msg) /\ last.out.exc # "none")
       => /\ last.out.exc = "RuntimeError"
          /\ last.out.message.fmt = "msg"
          /\ last.out.message.found = last.msg

\* the textual form of a value: the value itself when it is a string, its
\* display representation otherwise
TextOf(v) == IF v.t = "str" THEN v.v ELSE Repr(v)

\* the outcome of the call of `last` had its match type been match_type
WithMatchType(match_type) ==
    ExpectOn(result[current], last.key, match_type, last.match_value, last.msg)

\* `out` is the assertion failure that reports found and expected (or the
\* message given to Expect)
ReportsFailure(out, found, expected) ==
    /\ out.exc = "RuntimeError"
    /\ ~Truthy(last.msg) => out.message.found = found /\ out.message.expected = expected
    /\ Truthy(last.msg) => out.message.found = last.msg

\* C15: for a resolved value v and a match string m, 'is' passes exactly when
\* the textual form of v equals m, exactly one of 'is' and 'is not' passes,
\* and the one that fails reports the textual form of v as found and m as
\* expected.
C15_Equality ==
    (ReachedMatchType /\ last.out.family \in {"is", "is_not"} /\ last.match_value.t = "str")
       => LET text == StrV(TextOf(last.out.returned))
              is == WithMatchType(<<"i","s">>)
              is_not == WithMatchType(<<"i","s"," ","n","o","t">>)
          IN /\ is.exc = "none" <=> text = last.match_value
             /\ is_not.exc = "none" <=> text # last.match_value
             /\ is.exc # "none" => ReportsFailure(is, text, last.match_value)
             /\ is_not.exc # "none" => ReportsFailure(is_not, text, last.match_value)

\* the error of a value whose type the method cannot search
Unsupported(out) ==
    /\ out.exc = "RuntimeError"
    /\ out.message.fmt \in {"Unable to determine type of return value", "msg"}
    /\ ~Truthy(last.msg) => out.message.fmt = "Unable to determine type of return value"

\* m is in v: a substring of a string, an element of a sequence, a key of a
\* mapping
IsIn(m, v) ==
    CASE v.t = "str"  -> \E i \in 0..(Len(v.v) - Len(m.v)) : SubSeq(v.v, i + 1, i + Len(m.v)) = m.v
      [] v.t = "list" -> \E i \in DOMAIN v.v : v.v[i] = m
      [] v.t = "dict" -> m.v \in DOMAIN v.v

\* C16: 'contains' chooses its test by the type of the resolved value: a
\* substring test for a string, an element test for a sequence, a key test for
\* a mapping, and the unsupported-type error for any other type; 'does not
\* contain' passes exactly when 'contains' does not on the three types and
\* raises the unsupported-type error on the others.
C16_Contains ==
    (ReachedMatchType /\ last.out.family \in {"contains", "does_not_contain"}
       /\ last.match_value.t = "str")
       => LET v == last.out.returned
              contains == WithMatchType(<<"c","o","n","t","a","i","n","s">>)
              does_not == WithMatchType(<<"d","o","e","s"," ","n","o","t"," ",
                                          "c","o","n","t","a","i","n">>)
          IN IF v.t \in {"str", "list", "dict"}
             THEN /\ contains.exc = "none" <=> IsIn(last.match_value, v)
                  /\ does_not.exc = "none" <=> ~IsIn(last.match_value, v)
             ELSE Unsupported(contains) /\ Unsupported(does_not)

\* C16 witness: 'contains' found the match string among the keys of a mapping
C16_Witness ==
    /\ ReachedMatchType /\ last.out.family = "contains"
    /\ last.out.returned.t = "dict" /\ last.match_value = StrV(s_load)
    /\ last.out.exc = "none"

\* C17: once a fetch has stored a sequence of lines, Expect config 'to contain
\* line' L passes exactly when L is one of the stored lines; with 'no ip
\* routing' stored and 'ip routing' not, 'to contain line' 'ip routing' fails.
C17_ExactLine ==
    (ReachedMatchType /\ result[current].t = "list" /\ last.key = s_config
       /\ last.out.family = "contains_line" /\ last.match_value.t = "str")
       => (last.out.exc = "none"
             <=> \E i \in DOMAIN result[current].v : result[current].v[i] = last.match_value)

\* C18: 'to not contain line' negates 'to contain line': for a resolved value
\* that is a string or a sequence of lines, and any match value, exactly one
\* of the two passes.
C18_LineNegation ==
    (ReachedMatchType /\ last.out.family \in {"contains_line", "does_not_contain_line"}
       /\ last.out.returned.t \in {"str", "list"})
       => (WithMatchType(<<"t","o"," ","c","o","n","t","a","i","n"," ","l","i","n","e">>).exc
              = "none")
          # (WithMatchType(<<"t","o"," ","n","o","t"," ","c","o","n","t","a","i","n"," ",
                             "l","i","n","e">>).exc = "none")

\* the number a value denotes, as numerator and denominator: an integer, a
\* non-integer number, or a numeric string
NumberOf(x) ==
    CASE x.t = "int"   -> <<x.v, 1>>
      [] x.t = "float" -> x.v
      [] x.t = "str"   -> IF ParseInt(Strip(x.v)).ok
                          THEN <<ParseInt(Strip(x.v)).n, 1>>
                          ELSE <<ParseFloat(Strip(x.v)).n, ParseFloat(Strip(x.v)).d>>

\* a < b for numbers with positive denominators
Less(a, b) == a[1] * b[2] < b[1] * a[2]

\* C19: when the resolved value and the match value both denote numbers,
\* 'greater than' passes exactly when the resolved number is strictly greater
\* than the match number and 'less than' exactly when it is strictly less; a
\* resolved value that is already a number is compared as it is, without
\* truncation.
C19_NumericOrder ==
    (ReachedMatchType /\ last.out.family \in {"greater", "less"}
       /\ IsNumber(last.out.returned) /\ last.match_value.t = "str"
       /\ IsNumber(last.match_value))
       => LET v == NumberOf(last.out.returned)
              m == NumberOf(last.match_value)
          IN /\ last.out.family = "greater" => (last.out.exc = "none" <=> Less(m, v))
             /\ last.out.family = "less" => (last.out.exc = "none" <=> Less(v, m))

\* the numeric-coercion error for one side of the comparison: it names the
\* side and gives its content
CoercionError(out, side, content) ==
    /\ out.exc = "RuntimeError"
    /\ out.message.fmt =
          (IF side = "returned" THEN "Key: Returned: must compare to an int or float."
           ELSE "Key: Match: must provide an int or float as a match value.")
    /\ out.message.found = content

\* C20: when the resolved value or the match value of 'greater than' or 'less
\* than' cannot be read as a number (a string that is no number, or no match
\* value at all), Expect raises the numeric-coercion error, which names the
\* offending side with its content and differs from the assertion failure of
\* a false comparison.
C20_CoercionError ==
    (ReachedMatchType /\ last.out.family \in {"greater", "less"})
       => /\ ~IsNumber(last.out.returned)
                => CoercionError(last.out, "returned", last.out.returned)
          /\ IsNumber(last.out.returned) /\ ~IsNumber(last.match_value)
                => CoercionError(last.out, "match", last.match_value)

\* a step of one of the keywords that only read: Expect, Get Value, Record
\* Output
ReadStep == last'.op \in {"expect", "get_value", "record"} /\ last' # last

\* C21: Expect, Get Value and Record Output, with or without a command and
\* whether they pass or fail, leave the remembered command and the stored
\* result of every switch as they were, so that repeating an Expect after
\* them, with the arguments it had, gives the outcome it gave.
C21_Step ==
    ReadStep
       => /\ switch_cmd' = switch_cmd
          /\ result' = result
          /\ current' = current
          /\ last.op = "expect"
                => expect(SessionKeys[1], SessionMatchTypes[1], SessionMatchValues[1],
                          None)' = last.out
C21_ReadOnly == [][C21_Step]_vars

\* C21 witness: Record Output ran a command on a switch that holds a result
C21_Witness ==
    /\ last.op = "record" /\ Truthy(last.cmd) /\ last.out.exc = "none"
    /\ current \in DOMAIN result /\ result[current] # None
    /\ last.out.val # result[current]

\* a result without its text envelope {'output': ...}
Unwrapped(x) ==
    IF x.t = "dict" /\ s_output \in DOMAIN x.v THEN x.v[s_output] ELSE x

\* C22: Record Output acts on the switch its selector names, the active
\* switch when there is no selector: a command is executed on that switch,
\* and without a command the stored result of that switch is returned, the
\* text envelope removed.
C22_RecordOnSelected ==
    (last.op = "record" /\ last.out.exc = "none" /\ get_switch(last.switch_id) # 0)
       => /\ Truthy(last.cmd) => last.out.dev = get_switch(last.switch_id)
          /\ ~Truthy(last.cmd)
                => /\ get_switch(last.switch_id) \in DOMAIN result
                   /\ last.out.val = Unwrapped(result[get_switch(last.switch_id)])

\* the outcome of Expect with the arguments of the session on the entry of
\* switch d
ExpectOf(d) ==
    IF d \in DOMAIN result
    THEN ExpectOn(result[d], SessionKeys[1], SessionMatchTypes[1], SessionMatchValues[1], None)
    ELSE Outcome("KeyError", "result", None, "", NoMessage)

\* C23: with a switch active, Change To Switch with a registered index or
\* alias makes that switch the active one and returns the index that was
\* active, which stays registered, so that switching to the returned index
\* restores the active switch; and
\* Expect and Get Value read the entry of the switch the latest successful
\* Change To Switch made active.
C23_Step ==
    /\ (last'.op = "switch" /\ last' # last /\ current # 0
          /\ ResolveIndex(last'.arg) # 0)
          => /\ last'.exc = "none"
             /\ current' = ResolveIndex(last'.arg)
             /\ last'.ret = current
             /\ last'.ret \in 1..connections'
    /\ (last.op = "switch" /\ last.exc = "none" /\ last'.op = "expect")
          => last'.out = ExpectOf(ResolveIndex(last.arg))
    /\ (last.op = "switch" /\ last.exc = "none" /\ last'.op = "get_value"
          /\ ResolveIndex(last.arg) \in DOMAIN result)
          => last'.out = ResolveKey(SessionKeys[1], result[ResolveIndex(last.arg)],
                                    GetValueWholeKeys)
Requested(extensions, available, installed) ==
    {ext \in DOMAIN extensions :
        /\ available = "True" => extensions[ext].presence = "present"
        /\ available = "False" => extensions[ext].presence # "present"
        /\ installed = "True" => extensions[ext].status = "installed"
        /\ installed = "False" => extensions[ext].status = "notInstalled"
        /\ installed = "forced" => extensions[ext].status = "forceInstalled"}

\* C24: List Extensions filters by the criteria requested and by nothing
\* else: with the defaults 'any' it names every extension the switch reports,
\* whatever its presence and status; available True / False keeps the present
\* / not present ones; installed True, False, 'forced' keeps the installed,
\* not installed, force-installed ones.
C24_RequestedFilters ==
    (last.op = "list_extensions" /\ last.out.exc = "none" /\ args.reply = "json")
       => last.out.val = Requested(args.extensions, args.available, args.installed)

C26_Step ==
    (IsFetch /\ last'.exc = "none" /\ (last'.switch_id.kind = "none" \/ Selected # 0))
       => /\ \A i \in DOMAIN last'.ran : last'.ran[i].dev = last'.ran[i].index
          /\ last'.switch_id.kind # "none" => current' = Selected
          /\ last'.switch_id.kind = "none"
                => current' = (IF connections > 0 THEN connections ELSE current)
          /\ connections > 0 => current' \in DOMAIN result'
C26_ActiveAfterFetch == [][C26_Step]_vars

\* C26 witness: a call for the first of two switches returned and left the
\* first switch active; the second holds a result of an earlier call
C26_Witness ==
    /\ last.op = "fetch" /\ last.exc = "none" /\ last.switch_id = ByIndex(1)
    /\ Len(last.ran) = 1 /\ connections = 2 /\ current = 1
    /\ 2 \in DOMAIN result /\ result[2] # None

\* C27: the stored result of every switch that has one is either cleared or
\* the decoded output of the command remembered for that switch, executed on
\* that switch: never the output of another command or of another switch.
C27_CacheCoherence ==
    \A d \in 1..connections :
       (d \in DOMAIN result /\ result[d] # None)
          => /\ d \in DOMAIN switch_cmd
             /\ \E b \in Answers \ {"fail"} :
                   /\ Decode(switch_cmd[d], d, b).exc = "none"
                   /\ Decode(switch_cmd[d], d, b).val = result[d]

\* C27 witness: two switches hold the results of different commands
C27_Witness ==
    /\ connections = 2 /\ DOMAIN result = {1, 2}
    /\ result[1] # None /\ result[2] # None
    /\ switch_cmd[1] = CmdHostname /\ switch_cmd[2] = CmdRunningAll

\* the switch at which the call of the step stopped
FailedAt == last'.ran[Len(last'.ran)].index

\* C28: get_command_output does not roll back: when the command given to it
\* is rejected by a switch, the error propagates with that command remembered
\* for the switch and the result of the switch cleared, and the next call for
\* that switch without a command sends the same command again.
C28_Step ==
    /\ (IsFetch /\ Truthy(last'.cmd) /\ last'.exc = "AssertionError")
          => /\ last'.ran # << >>
             /\ FailedAt \in DOMAIN switch_cmd' /\ switch_cmd'[FailedAt] = last'.cmd
             /\ FailedAt \in DOMAIN result' /\ result'[FailedAt] = None
    /\ (last.op = "fetch" /\ Truthy(last.cmd) /\ last.exc = "AssertionError"
          /\ IsFetch /\ last' # last /\ ~Truthy(last'.cmd)
          /\ Selected # 0 /\ Selected = last.ran[Len(last.ran)].index)
          => /\ Len(last'.ran) = 1
             /\ last'.ran[1].index = Selected /\ last'.ran[1].dev = Selected
             /\ last'.ran[1].cmd = last.cmd
C28_NoRollback == [][C28_Step]_vars

\* C28 witness: a command other than the import default was rejected by the
\* first switch, which held a result before, and is now the remembered one
C28_Witness ==
    /\ last.op = "fetch" /\ last.exc = "AssertionError"
    /\ last.cmd = CmdRunningAll /\ import_cmd = CmdHostname
    /\ last.switch_id = ByIndex(1)
    /\ switch_cmd[1] = CmdRunningAll /\ result[1] = None

\* the entries of switch d hold the command of the call and its decoded output
EntriesHoldOutput(d) ==
    /\ d \in DOMAIN switch_cmd' /\ switch_cmd'[d] = Chosen(last'.cmd, d)
    /\ d \in DOMAIN result' /\ result'[d] # None
    /\ \E b \in Answers \ {"fail"} :
          /\ Decode(Chosen(last'.cmd, d), d, b).exc = "none"
          /\ Decode(Chosen(last'.cmd, d), d, b).val = result'[d]

\* C29: get_command_output for all switches takes them one at a time in the
\* order of get_switches and stops at the first failure: the switches before
\* the failing one hold the new command and its result, the failing one holds
\* the new command and a cleared result, and the switches after it keep the
\* command and the result they had.
C29_Step ==
    (IsFetch /\ last'.switch_id.kind = "none") =>
       /\ \A i \in DOMAIN last'.ran :
             /\ last'.ran[i].dev = last'.ran[i].index
             /\ \A j \in DOMAIN last'.ran : i < j => last'.ran[i].index < last'.ran[j].index
       /\ last'.exc # "none" =>
             \E f \in 1..connections :
                /\ current' = f
                /\ \A i \in DOMAIN last'.ran : last'.ran[i].index <= f
                /\ \A d \in 1..(f - 1) : EntriesHoldOutput(d)
                /\ f \in DOMAIN switch_cmd' /\ switch_cmd'[f] = Chosen(last'.cmd, f)
                /\ f \in DOMAIN result' /\ result'[f] = None
                /\ \A d \in (f + 1)..connections : EntriesUnchanged(d)
C29_StopsAtFirstFailure == [][C29_Step]_vars

\* C29 witness: a call for all switches with a new command was rejected by
\* the first switch, and the second still holds another command and its result
C29_Witness ==
    /\ last.op = "fetch" /\ last.switch_id = NoSel /\ last.exc = "AssertionError"
    /\ last.cmd = CmdRunningAll
    /\ connections = 2 /\ Len(last.ran) = 1 /\ last.ran[1].index = 1
    /\ switch_cmd[1] = CmdRunningAll /\ result[1] = None
    /\ 2 \in DOMAIN switch_cmd /\ switch_cmd[2] = CmdHostname
    /\ 2 \in DOMAIN result /\ result[2] # None

\* C30: in every reachable state every key of self.result and of
\* self.switch_cmd is the index of a switch registered by connect_to, so a
\* call of get_command_output whose selector names no registered switch has
\* added no entry.
C30_RegisteredKeys ==
    /\ DOMAIN result \subseteq 1..connections
    /\ DOMAIN switch_cmd \subseteq 1..connections

====
